---- MODULE Spec2Model ----
(***************************************************************************)
(* KMGR: pack lifecycle (build_pack, append_chat, export_context and the   *)
(* single-member archive replace) of the three KMGR classes in the         *)
(* repository: src/server.py, src/src/mcp_kmgr/server.py and src/kmgr.py.  *)
(*                                                                         *)
(* Text is a sequence of characters and a byte string a sequence of bytes. *)
(* An ASCII character or byte is the one-character string itself; the      *)
(* other characters and bytes the model uses are the named tokens below.   *)
(***************************************************************************)
EXTENDS Integers, Sequences, FiniteSets, TLC

\* A function on 1..n as the sequence it is.
Tuple(f) == f \o <<>>

\* A string literal as a sequence of its characters.
Chars(s) == Tuple([i \in 1..Len(s) |-> SubSeq(s, i, i)])

\* Concatenation of F(s, i) for i = lo..hi (evaluated by halving the range).
RECURSIVE FlatMap(_, _, _, _)
FlatMap(F(_, _), s, lo, hi) ==
    IF lo > hi THEN <<>>
    ELSE IF lo = hi THEN F(s, lo)
    ELSE LET mid == (lo + hi) \div 2
         IN  FlatMap(F, s, lo, mid) \o FlatMap(F, s, mid + 1, hi)

\* Sum of F(s, i) for i = lo..hi.
RECURSIVE SumMap(_, _, _, _)
SumMap(F(_, _), s, lo, hi) ==
    IF lo > hi THEN 0
    ELSE IF lo = hi THEN F(s, lo)
    ELSE LET mid == (lo + hi) \div 2
         IN  SumMap(F, s, lo, mid) + SumMap(F, s, mid + 1, hi)

\* Python's `needle in hay` on str / bytes.
Contains(hay, needle) ==
    \E i \in 0..(Len(hay) - Len(needle)) : SubSeq(hay, i + 1, i + Len(needle)) = needle

IsPrefix(a, b) == Len(a) <= Len(b) /\ SubSeq(b, 1, Len(a)) = a

\* s[:n]
Take(s, n) == SubSeq(s, 1, IF n < Len(s) THEN n ELSE Len(s))

\* The elements of a sequence.
Range(s) == {s[i] : i \in 1..Len(s)}

(***************************************************************************)
(* Characters, bytes and UTF-8.  Non-ASCII characters of the model:        *)
(*   "U+E9" (e acute), "U+C9" (E acute), "U+85" (NEL, a line boundary for  *)
(*   str.splitlines that json.dumps(ensure_ascii=False) does not escape),  *)
(*   "U+3A3" (capital sigma), "U+3C3" (small sigma), "U+3C2" (small final  *)
(*   sigma).                                                               *)
(* Bytes >= 0x80 of the model: the UTF-8 bytes of those characters and     *)
(*   "xFF", which is never valid in UTF-8.  "x00" is the NUL byte and the  *)
(*   character U+0000.                                                     *)
(***************************************************************************)
Utf8Table ==
    { <<"U+E9", <<"xC3", "xA9">> >>,
      <<"U+C9", <<"xC3", "x89">> >>,
      <<"U+85", <<"xC2", "x85">> >>,
      <<"U+3A3", <<"xCE", "xA3">> >>,
      <<"U+3C3", <<"xCF", "x83">> >>,
      <<"U+3C2", <<"xCF", "x82">> >> }

NonAsciiChars == {e[1] : e \in Utf8Table}
LeadBytes == {e[2][1] : e \in Utf8Table}
ContBytes == {e[2][2] : e \in Utf8Table}

\* str.encode("utf-8") of one character.
Utf8Char(c) ==
    IF c \in NonAsciiChars
    THEN (CHOOSE e \in Utf8Table : e[1] = c)[2]
    ELSE <<c>>

EncodeAt(s, i) == Utf8Char(s[i])

\* str.encode(UTF8): the characters of the model are all encodable.
Utf8Encode(s) == FlatMap(EncodeAt, s, 1, Len(s))

WidthAt(s, i) == Len(Utf8Char(s[i]))

\* len(s.encode(UTF8))
Utf8Len(s) == SumMap(WidthAt, s, 1, Len(s))

IsPair(b, i) ==
    /\ i >= 1
    /\ i + 1 <= Len(b)
    /\ \E e \in Utf8Table : e[2] = <<b[i], b[i + 1]>>

\* The byte at i starts a two-byte character that the byte before it has not
\* already used up: a lead is consumed as a continuation only in a pair, and a
\* lead byte is never a continuation byte, so pairs do not overlap.
DecodeAt(b, i) ==
    IF b[i] \in LeadBytes
    THEN IF IsPair(b, i)
         THEN <<(CHOOSE e \in Utf8Table : e[2] = <<b[i], b[i + 1]>>)[1]>>
         ELSE <<>>                       \* truncated sequence: dropped
    ELSE IF b[i] \in ContBytes
    THEN <<>>                            \* used by the pair before it, or stray
    ELSE IF b[i] = "xFF"
    THEN <<>>                            \* invalid byte: dropped
    ELSE <<b[i]>>

\* bytes.decode(UTF8, "ignore"): invalid sequences are dropped.
Utf8DecodeIgnore(b) == FlatMap(DecodeAt, b, 1, Len(b))

UpperAZ == Chars("ABCDEFGHIJKLMNOPQRSTUVWXYZ")
LowerAZ == Chars("abcdefghijklmnopqrstuvwxyz")

LowerOf ==
    [c \in {UpperAZ[k] : k \in 1..26} \cup {"U+C9", "U+3A3"} |->
        IF c = "U+C9" THEN "U+E9"
        ELSE IF c = "U+3A3" THEN "U+3C3"
        ELSE LowerAZ[CHOOSE k \in 1..26 : UpperAZ[k] = c]]

\* The lower-case form of one character on its own.
LowerChar(c) == IF c \in DOMAIN LowerOf THEN LowerOf[c] ELSE c

\* The characters of the model that have a case, and those that the rule for
\* the capital sigma looks through (Unicode's Cased and Case_Ignorable).
CasedChars ==
    {UpperAZ[k] : k \in 1..26} \cup {LowerAZ[k] : k \in 1..26}
    \cup {"U+E9", "U+C9", "U+3A3", "U+3C3", "U+3C2"}

CaseIgnorableChars == {"'", ".", ":", "^"}

\* The capital sigma at i ends a word: a cased character stands before it
\* and none after it, case-ignorable characters not counted.
IsFinalSigma(s, i) ==
    LET before == {j \in 1..(i - 1) : s[j] \notin CaseIgnorableChars}
        after == {j \in (i + 1)..Len(s) : s[j] \notin CaseIgnorableChars}
    IN  /\ before # {}
        /\ s[CHOOSE j \in before : \A k \in before : k <= j] \in CasedChars
        /\ \/ after = {}
           \/ s[CHOOSE j \in after : \A k \in after : j <= k] \notin CasedChars

\* str.lower(): each character's lower-case form, but for the capital sigma,
\* which becomes the final sigma where it ends a word.
Lower(s) ==
    Tuple([i \in 1..Len(s) |->
             IF s[i] = "U+3A3" /\ IsFinalSigma(s, i) THEN "U+3C2" ELSE LowerChar(s[i])])

NewlineAt(s, i) ==
    IF s[i] = "\r" THEN <<"\n">>
    ELSE IF s[i] = "\n" /\ i > 1 /\ s[i - 1] = "\r" THEN <<>>
    ELSE <<s[i]>>

\* Reading in text mode (newline=None): "\r\n" and a lone "\r" both become "\n".
UniversalNewlines(s) == FlatMap(NewlineAt, s, 1, Len(s))

CrlfAt(s, i) ==
    IF s[i] = "\r" /\ i < Len(s) /\ s[i + 1] = "\n" THEN <<>>
    ELSE <<s[i]>>

\* str.replace("\r\n", "\n")
ReplaceCrlf(s) == FlatMap(CrlfAt, s, 1, Len(s))

Digits == Chars("0123456789")
HexDigits == Chars("0123456789abcdef")

\* str(n) for n >= 0
RECURSIVE IntToStr(_)
IntToStr(n) ==
    IF n < 10 THEN <<Digits[n + 1]>>
    ELSE IntToStr(n \div 10) \o <<Digits[(n % 10) + 1]>>

IsDigits(s) == Len(s) > 0 /\ \A i \in 1..Len(s) : \E d \in 1..10 : Digits[d] = s[i]

DigitVal(c) == (CHOOSE d \in 1..10 : Digits[d] = c) - 1

RECURSIVE ParseDigits(_, _)
ParseDigits(s, n) ==
    IF n = 0 THEN 0 ELSE 10 * ParseDigits(s, n - 1) + DigitVal(s[n])

\* int(s) on a string of decimal digits (the only form build writes).
ParseInt(s) == ParseDigits(s, Len(s))

JsonEscAt(s, i) ==
    LET c == s[i]
    IN  IF c = "\"" THEN Chars("\\\"")
        ELSE IF c = "\\" THEN Chars("\\\\")
        ELSE IF c = "\n" THEN Chars("\\n")
        ELSE IF c = "\r" THEN Chars("\\r")
        ELSE IF c = "\t" THEN Chars("\\t")
        ELSE IF c = "\f" THEN Chars("\\f")
        ELSE IF c = "x00" THEN Chars("\\u0000")
        ELSE <<c>>

\* json.dumps(s, ensure_ascii=False) of a str: quoted, with the quote, the
\* backslash and the control characters below 0x20 escaped; nothing else is.
JsonStr(s) == <<"\"">> \o FlatMap(JsonEscAt, s, 1, Len(s)) \o <<"\"">>

\* The line boundaries of str.splitlines() among the model's characters.
LineBreakChars == {"\n", "\r", "\f", "U+85"}

\* Position i is the last character of a line boundary ("\r\n" is one boundary).
IsBreakEnd(s, i) ==
    /\ s[i] \in LineBreakChars
    /\ ~(s[i] = "\r" /\ i < Len(s) /\ s[i + 1] = "\n")

PrevBreakEnd(s, i) ==
    LET ends == {j \in 1..(i - 1) : IsBreakEnd(s, j)}
    IN  IF ends = {} THEN 0 ELSE CHOOSE j \in ends : \A k \in ends : k <= j

SplitLineAt(s, i) ==
    IF IsBreakEnd(s, i)
    THEN LET start == IF s[i] = "\n" /\ i > 1 /\ s[i - 1] = "\r" THEN i - 1 ELSE i
         IN  << SubSeq(s, PrevBreakEnd(s, start) + 1, start - 1) >>
    ELSE IF i = Len(s)
    THEN << SubSeq(s, PrevBreakEnd(s, i) + 1, i) >>
    ELSE <<>>

\* str.splitlines(): the lines without their boundaries; a final boundary
\* starts no further line.
SplitLines(s) == FlatMap(SplitLineAt, s, 1, Len(s))

PrevSep(s, i, sep) ==
    LET seps == {j \in 1..(i - 1) : s[j] = sep}
    IN  IF seps = {} THEN 0 ELSE CHOOSE j \in seps : \A k \in seps : k <= j

\* str.split(sep) for a one-character separator: always at least one field.
Split(s, sep) ==
    LET t == s \o <<sep>>
        FieldAt(u, i) == IF u[i] = sep THEN << SubSeq(u, PrevSep(u, i, sep) + 1, i - 1) >> ELSE <<>>
    IN  FlatMap(FieldAt, t, 1, Len(t))

Whitespace == {" ", "\t", "\n", "\r", "\f"}

\* str.strip(): what lies between the first and the last character that is
\* no whitespace.
Strip(s) ==
    LET n == Len(s)
        Blank(i) == s[i] \in Whitespace
    IN  IF \A i \in 1..n : Blank(i) THEN <<>>
        ELSE LET lead == CHOOSE d \in 0..(n - 1) :
                            ~Blank(d + 1) /\ \A k \in 1..d : Blank(k)
                 trail == CHOOSE d \in 0..(n - 1) :
                            ~Blank(n - d) /\ \A k \in (n - d + 1)..n : Blank(k)
             IN  SubSeq(s, lead + 1, n - trail)

\* "".join(rows)
RECURSIVE Join(_, _, _)
Join(rows, lo, hi) ==
    IF lo > hi THEN <<>>
    ELSE IF lo = hi THEN rows[lo]
    ELSE LET mid == (lo + hi) \div 2
         IN  Join(rows, lo, mid) \o Join(rows, mid + 1, hi)

Concat(rows) == Join(rows, 1, Len(rows))

(***************************************************************************)
(* hashlib.sha1(b).hexdigest().  SHA-1 itself is not modelled: the digest  *)
(* is a position-weighted sum of the bytes, rendered as HexDigestLen       *)
(* lower-case hex digits (40 in the program).                              *)
(***************************************************************************)
HexDigestLen == 4

\* The clock of a run stops at this day of the month.
MaxDay == 2

\* The number of builds in a run of the build specification.
MaxBuilds == 1
MaxRebuilds == 2
MaxValidateCalls == 2
MaxCeilingCalls == 3
MaxCutCalls == 3
MaxDedupCalls == 2
MaxCaseCalls == 2
MaxNoLogCalls == 2

\* The number of calls in a run of the log and of the export specification.
MaxCalls == 2

\* The number of calls, of both processes together, in a run of the race
\* specification.
MaxRaceCalls == 2
MaxAppends == 2
MaxRebuildRaceCalls == 3
MaxCoherentCalls == 3
MaxRoleCalls == 2
MaxDaysCalls == 3
MaxCollideCalls == 2
MaxFieldCalls == 3

\* The length of the run of one character that makes a log content larger
\* than MIN_EXPORT_BYTES.
BigLen == 1100

ByteTable ==
    Chars(" !\"#$%&'()*+,-./0123456789:;<=>?@ABCDEFGHIJKLMNOPQRSTUVWXYZ")
    \o Chars("[\\]^_abcdefghijklmnopqrstuvwxyz{|}~")
    \o <<"\t", "\n", "\r", "\f", "x00", "xC2", "xC3", "x85", "x89", "xA9", "xFF">>
    \o <<"xCE", "xCF", "xA3", "x83", "x82">>

ByteOrdOf ==
    [c \in {ByteTable[k] : k \in 1..Len(ByteTable)} |->
        CHOOSE k \in 1..Len(ByteTable) : ByteTable[k] = c]

RECURSIVE Pow16(_)
Pow16(n) == IF n = 0 THEN 1 ELSE 16 * Pow16(n - 1)

\* The digest is computed modulo m = 16^HexDigestLen throughout, as a hash is
\* on its word size, so that no intermediate value leaves the integers of
\* the model checker on a large input.
DigestTerm(b, i, m) == (ByteOrdOf[b[i]] * ((31 * i + 17) % m)) % m

RECURSIVE DigestSum(_, _, _, _)
DigestSum(b, lo, hi, m) ==
    IF lo = hi THEN DigestTerm(b, lo, m)
    ELSE IF lo > hi THEN 0
    ELSE LET mid == (lo + hi) \div 2
         IN  (DigestSum(b, lo, mid, m) + DigestSum(b, mid + 1, hi, m)) % m

DigestValue(b) ==
    LET m == Pow16(HexDigestLen)
    IN  ((7919 % m) * ((Len(b) + 1) % 4096) + DigestSum(b, 1, Len(b), m)) % m

Sha1Hex(b) ==
    LET v == DigestValue(b)
    IN  Tuple([k \in 1..HexDigestLen |-> HexDigits[((v \div Pow16(HexDigestLen - k)) % 16) + 1]])

(***************************************************************************)
(* Paths.  A path is the sequence of its components (pathlib's p.parts),   *)
(* the first being the anchor.                                             *)
(***************************************************************************)
Anchor(os) == IF os = "nt" THEN Chars("K:\\") ELSE Chars("/")
PathSep(os) == IF os = "nt" THEN "\\" ELSE "/"

\* str(p)
StrPath(os, parts) ==
    LET PartAt(ps, i) == IF i <= 2 THEN ps[i] ELSE <<PathSep(os)>> \o ps[i]
    IN  FlatMap(PartAt, parts, 1, Len(parts))

\* p.name
PathName(parts) == IF Len(parts) <= 1 THEN <<>> ELSE parts[Len(parts)]

\* p.parent.name
ParentName(parts) == IF Len(parts) <= 2 THEN <<>> ELSE parts[Len(parts) - 1]

WordChars ==
    Range(UpperAZ) \cup Range(LowerAZ) \cup Range(Digits)
    \cup {"_", "U+E9", "U+C9", "U+3A3", "U+3C3", "U+3C2"}

\* re.sub(r"\W+", "_", name) or "repo"
AliasOfName(name) ==
    LET SubAt(n, i) ==
            IF n[i] \in WordChars THEN <<n[i]>>
            ELSE IF i = 1 \/ n[i - 1] \in WordChars THEN <<"_">>
            ELSE <<>>
        a == FlatMap(SubAt, name, 1, Len(name))
    IN  IF a = <<>> THEN Chars("repo") ELSE a

AliasChars == Range(UpperAZ) \cup Range(LowerAZ) \cup Range(Digits) \cup {".", "_", "-"}

\* server.py _sanitize_alias: the alias is accepted as it is, or the call fails.
SanitizeAliasOk(alias) ==
    /\ Len(alias) > 0
    /\ Len(alias) <= 64
    /\ \A i \in 1..Len(alias) : alias[i] \in AliasChars

\* time.strftime('%Y-%m-%d') on day `day` of the month the model runs in.
DateStr(day) == Chars("2026-11-") \o (IF day < 10 THEN <<"0">> ELSE <<>>) \o IntToStr(day)

\* time.strftime("%Y-%m-%dT%H:%M:%SZ", time.gmtime()): the clock of the model
\* has the resolution of one day.
TimeStamp(day) == DateStr(day) \o Chars("T00:00:00Z")

\* A pack file name without the date: one pack per alias.
PackFileName_NoDate(alias, day) == alias \o Chars(".kpkg")

\* The file name of _pack_path below self.packs.
PackFileName(alias, day) == alias \o <<"_">> \o DateStr(day) \o Chars(".kpkg")

(***************************************************************************)
(* fnmatch.fnmatch(name, pat): both are passed through os.path.normcase    *)
(* (lower-cased on Windows), then matched with * and ? as wildcards.       *)
(* Bracket classes are not modelled: no pattern of the model has one.      *)
(***************************************************************************)
NormCase(os, s) ==
    IF os = "nt"
    THEN Tuple([i \in 1..Len(s) |-> IF s[i] = "/" THEN "\\" ELSE LowerChar(s[i])])
    ELSE s

RECURSIVE GlobMatch(_, _, _, _)
GlobMatch(n, p, i, j) ==
    IF j > Len(p) THEN i > Len(n)
    ELSE IF p[j] = "*"
    THEN GlobMatch(n, p, i, j + 1) \/ (i <= Len(n) /\ GlobMatch(n, p, i + 1, j))
    ELSE /\ i <= Len(n)
         /\ (p[j] = "?" \/ p[j] = n[i])
         /\ GlobMatch(n, p, i + 1, j + 1)

FnMatch(os, name, pat) == GlobMatch(NormCase(os, name), NormCase(os, pat), 1, 1)

(***************************************************************************)
(* State.                                                                  *)
(***************************************************************************)
VARIABLES
    impl,      \* which KMGR class runs: "server" (src/server.py),
               \* "mcp" (src/src/mcp_kmgr/server.py) or "kmgr" (src/kmgr.py)
    os_name,   \* os.name: "posix" or "nt"
    today,     \* the day of the month of the clock
    dirs,      \* the directories a repo argument can name: path -> entries below it
    packs,     \* the files below self.packs: file name -> archive
    temps,     \* the temporary files that exist: <<kind, process>>
    outfile,   \* the export output file (scratch/context_payload.txt)
    proc,      \* per process: the call it is in, its position and its locals
    ncalls,    \* the number of calls made so far
    hist       \* the last two calls that returned, oldest first (history,
               \* read by no action)

vars == <<impl, os_name, today, dirs, packs, temps, outfile, proc, ncalls, hist>>

Impls == {"server", "mcp", "kmgr"}
OsNames == {"posix", "nt"}

META == "meta.json"
INDEX == "repo_index.csv"
BLOB == "repo_content.bin"
CHAT == "chat.jsonl"

NUL == <<"x00">>

DefaultInclude ==
    << Chars("*.md"), Chars("*.txt"), Chars("*.rst"), Chars("*.py"), Chars("*.ps1"),
       Chars("*.psm1"), Chars("*.cs"), Chars("*.cpp"), Chars("*.h"), Chars("*.js"),
       Chars("*.ts"), Chars("*.tsx"), Chars("*.json"), Chars("*.yaml"), Chars("*.yml"),
       Chars("*.ini"), Chars("*.toml"), Chars("*.cfg"), Chars("*.sql"), Chars("*.sh"),
       Chars("*.bat") >>

DefaultExcludeDirs ==
    << Chars(".git"), Chars(".venv"), Chars("node_modules"), Chars("dist"),
       Chars("build"), Chars(".idea"), Chars(".vscode"), Chars(".vs"),
       Chars("__pycache__") >>

(***************************************************************************)
(* Archives.  A file at a pack path is a ZIP archive: its members in       *)
(* directory order, each a name and its bytes.  `complete` is false while  *)
(* the archive is being written in place (its central directory is written *)
(* on close); `writer` is the process holding it open for writing.         *)
(***************************************************************************)
NoFile == [exists |-> FALSE, complete |-> FALSE, writer |-> 0, members |-> <<>>]

Archive(members) == [exists |-> TRUE, complete |-> TRUE, writer |-> 0, members |-> members]

FileAt(fs, path) == IF path \in DOMAIN fs THEN fs[path] ELSE NoFile

Put(fs, path, file) == [q \in (DOMAIN fs) \cup {path} |-> IF q = path THEN file ELSE fs[q]]

MemberNames(a) == Tuple([i \in 1..Len(a.members) |-> a.members[i].name])

HasMember(a, name) == \E i \in 1..Len(a.members) : a.members[i].name = name

\* ZipFile.read(name): the last directory entry of that name.
MemberData(a, name) ==
    LET idx == {i \in 1..Len(a.members) : a.members[i].name = name}
    IN  a.members[CHOOSE i \in idx : \A k \in idx : k <= i].data

\* ZipFile(path, "r") succeeds: the file exists and has its central directory.
Readable(fs, path) == FileAt(fs, path).exists /\ FileAt(fs, path).complete

\* Path.stat().st_size of an archive.  Deflate is not modelled: the size is
\* taken to be the total of the member bytes.
ArchiveSize(a) ==
    LET SizeAt(ms, i) == Len(ms[i].data)
    IN  SumMap(SizeAt, a.members, 1, Len(a.members))

(***************************************************************************)
(* build_pack                                                              *)
(***************************************************************************)
\* json.dumps(meta, ensure_ascii=False, separators=(",", ":")).encode(UTF8)
MetaJson(created_utc, repo_root, approx_bytes) ==
    Utf8Encode(
        Chars("{\"created_utc\":") \o JsonStr(created_utc)
        \o Chars(",\"repo_root\":") \o JsonStr(repo_root)
        \o Chars(",\"schema\":\"KPKG-1\"")
        \o Chars(",\"parts\":{\"repo_index\":\"repo_index.csv\",")
        \o Chars("\"repo_content\":\"repo_content.bin\",\"chat\":\"chat.jsonl\"}")
        \o Chars(",\"approx_bytes\":") \o IntToStr(approx_bytes) \o Chars("}"))

\* inc = include or [defaults]; server.py also strips the patterns and drops
\* the blank ones.
IncludePatterns(im, include) ==
    LET given == IF include = <<>> THEN DefaultInclude ELSE include
        StripAt(ps, i) == IF Strip(ps[i]) = <<>> THEN <<>> ELSE << Strip(ps[i]) >>
    IN  IF im = "server" THEN FlatMap(StripAt, given, 1, Len(given)) ELSE given

\* exd = set(map(str.lower, exclude_dirs or [defaults]))
ExcludeSet(exclude) ==
    LET given == IF exclude = <<>> THEN DefaultExcludeDirs ELSE exclude
    IN  {Lower(given[i]) : i \in 1..Len(given)}

\* The exclusion test of the walk on the full path p = root / rel.
\*   server.py:  any(part.lower() in exd for part in p.parts)
\*   the others: p.parent.name.lower() in exd
IsExcluded(im, parts, exd) ==
    IF im = "server"
    THEN \E i \in 1..Len(parts) : Lower(parts[i]) \in exd
    ELSE Lower(ParentName(parts)) \in exd

\* any(fnmatch.fnmatch(p.name, pat) for pat in inc)
AnyMatch(os, name, inc) == \E i \in 1..Len(inc) : FnMatch(os, name, inc[i])

\* p.read_text(encoding=UTF8, errors="ignore").replace("\r\n", "\n")
ReadText(bytes) == ReplaceCrlf(UniversalNewlines(Utf8DecodeIgnore(bytes)))

\* A walk that takes every entry, whatever its kind.
IsScanned_AnyKind(im, os, root, e, inc, exd) ==
    /\ ~IsExcluded(im, root \o e.rel, exd)
    /\ AnyMatch(os, PathName(root \o e.rel), inc)
    /\ e.readable

\* The entry passes the three tests of the walk and can be read.
IsScanned(im, os, root, e, inc, exd) ==
    /\ e.kind = "file"
    /\ ~IsExcluded(im, root \o e.rel, exd)
    /\ AnyMatch(os, PathName(root \o e.rel), inc)
    /\ e.readable

\* A row whose digest is taken over the offset and the content.
IndexRow_HashesOffset(os, parts, ofs, b) ==
    StrPath(os, parts) \o <<"\t">> \o IntToStr(ofs) \o <<"\t">> \o IntToStr(Len(b))
    \o <<"\t">> \o Sha1Hex(IntToStr(ofs) \o b) \o <<"\n">>

\* f"{str(p)}\t{ofs}\t{len(b)}\t{sha1}\n"
IndexRow(os, parts, ofs, b) ==
    StrPath(os, parts) \o <<"\t">> \o IntToStr(ofs) \o <<"\t">> \o IntToStr(Len(b))
    \o <<"\t">> \o Sha1Hex(b) \o <<"\n">>

\* A walk that reads no file.
ScanEntry_ReadsNothing(im, os, b, e) == [b EXCEPT !.todo = b.todo \ {e}]

\* A walk whose running offset leaves the sentinel out of account.
ScanEntry_OffsetSkipsSentinel(im, os, b, e) ==
    IF IsScanned(im, os, b.root, e, b.inc, b.exd)
    THEN LET bytes == Utf8Encode(ReadText(e.bytes))
         IN  [b EXCEPT !.todo = b.todo \ {e},
                       !.blob = b.blob \o bytes \o NUL,
                       !.idx_rows = b.idx_rows \o IndexRow(os, b.root \o e.rel, b.ofs, bytes),
                       !.ofs = b.ofs + Len(bytes)]
    ELSE [b EXCEPT !.todo = b.todo \ {e}]

\* A walk that makes room in the offsets for a file it could not read.
ScanEntry_CountsUnread(im, os, b, e) ==
    IF IsScanned(im, os, b.root, e, b.inc, b.exd)
    THEN LET bytes == Utf8Encode(ReadText(e.bytes))
         IN  [b EXCEPT !.todo = b.todo \ {e},
                       !.blob = b.blob \o bytes \o NUL,
                       !.idx_rows = b.idx_rows \o IndexRow(os, b.root \o e.rel, b.ofs, bytes),
                       !.ofs = b.ofs + Len(bytes) + 1]
    ELSE IF e.kind = "file" /\ ~e.readable
    THEN [b EXCEPT !.todo = b.todo \ {e}, !.ofs = b.ofs + Len(e.bytes) + 1]
    ELSE [b EXCEPT !.todo = b.todo \ {e}]

\* One iteration of the loop over root.rglob("*"), on the locals of build.
ScanEntry(im, os, b, e) ==
    IF IsScanned(im, os, b.root, e, b.inc, b.exd)
    THEN LET bytes == Utf8Encode(ReadText(e.bytes))
         IN  [b EXCEPT !.todo = b.todo \ {e},
                       !.blob = b.blob \o bytes \o NUL,
                       !.idx_rows = b.idx_rows \o IndexRow(os, b.root \o e.rel, b.ofs, bytes),
                       !.ofs = b.ofs + Len(bytes) + 1]
    ELSE [b EXCEPT !.todo = b.todo \ {e}]

\* A build that carries the log of the pack it replaces over into the new one.
BuildMembers_KeepsLog(os, b, day) ==
    LET old == FileAt(packs, PackFileName(b.alias, day))
    IN  << [name |-> META, data |-> MetaJson(TimeStamp(day), StrPath(os, b.root), Len(b.blob))],
           [name |-> INDEX, data |-> Utf8Encode(b.idx_rows)],
           [name |-> BLOB, data |-> b.blob],
           [name |-> CHAT, data |-> IF old.exists /\ HasMember(old, CHAT)
                                    THEN MemberData(old, CHAT) ELSE <<>>] >>

\* The four members build writes, in the order it writes them.
BuildMembers(os, b, day) ==
    << [name |-> META, data |-> MetaJson(TimeStamp(day), StrPath(os, b.root), Len(b.blob))],
       [name |-> INDEX, data |-> Utf8Encode(b.idx_rows)],
       [name |-> BLOB, data |-> b.blob],
       [name |-> CHAT, data |-> <<>>] >>

(***************************************************************************)
(* Processes.  A call runs as a sequence of steps, one per access to the   *)
(* shared file system; what a step computes on its own locals is part of   *)
(* the step.                                                               *)
(***************************************************************************)
NoArgs ==
    [repo |-> <<>>, include |-> <<>>, exclude |-> <<>>, max_pack_mb |-> 2048,
     role |-> <<>>, content |-> <<>>, dedup |-> TRUE, query |-> <<>>, max_bytes |-> 120000]

NoBuild ==
    [repo |-> <<>>, include |-> <<>>, exclude |-> <<>>, mb |-> 2048,
     root |-> <<>>, alias |-> <<>>, inc |-> <<>>, exd |-> {}, todo |-> {},
     idx_rows |-> <<>>, ofs |-> 0, blob |-> <<>>, pack |-> <<>>, arc |-> NoFile, written |-> 0]

IdleProc ==
    [pc |-> "idle", op |-> "none", args |-> NoArgs, ret |-> "none", built |-> FALSE,
     pre |-> <<>>, day0 |-> 0, pack |-> <<>>, b |-> NoBuild,
     tmp_chat |-> <<>>, line |-> <<>>, arc |-> NoFile, buf |-> <<>>, total |-> 0]

Ok(pack, value) == [status |-> "ok", pack |-> pack, value |-> value]
Err(kind) == [status |-> kind, pack |-> <<>>, value |-> 0]

\* The call of process p returns `result`: its record joins the history.
Finish(p, result) ==
    LET r == proc[p]
        entry == [proc |-> p, op |-> r.op, args |-> r.args, result |-> result,
                  built |-> r.built, pre |-> r.pre, post |-> packs',
                  day0 |-> r.day0, day1 |-> today]
    IN  /\ proc' = [proc EXCEPT ![p] = IdleProc]
        /\ hist' = IF Len(hist) < 2 THEN Append(hist, entry) ELSE <<hist[2], entry>>

\* A call that fails before it has touched anything.
Reject(p, op, args, kind) ==
    LET entry == [proc |-> p, op |-> op, args |-> args, result |-> Err(kind),
                  built |-> FALSE, pre |-> packs, post |-> packs,
                  day0 |-> today, day1 |-> today]
    IN  /\ hist' = IF Len(hist) < 2 THEN Append(hist, entry) ELSE <<hist[2], entry>>
        /\ UNCHANGED <<proc, packs, temps, outfile>>

\* The record of a process entering a call.
Entered(op, args) ==
    [IdleProc EXCEPT !.op = op, !.args = args, !.pre = packs, !.day0 = today]

\* _resolve_repo(repo) for a repo argument that is a path: the registry holds
\* no alias in the runs of the model, so the path must be a directory.
ResolvesRepo(repo) == repo \in DOMAIN dirs

\* Entry of build_pack up to the walk: the argument check of server.py,
\* _resolve_repo, the patterns, the excluded names and the blob's temp file.
\* `r` is the record of the process, `ret` where it goes on after the build.
BuildBegin(p, r, repo, include, exclude, mb, ret) ==
    /\ temps' = temps \cup {<<"blob", p>>}
    /\ proc' = [proc EXCEPT ![p] =
                 [r EXCEPT !.pc = "b_scan", !.ret = ret, !.built = TRUE,
                           !.b = [NoBuild EXCEPT
                                    !.repo = repo, !.include = include,
                                    !.exclude = exclude, !.mb = mb,
                                    !.root = repo,
                                    !.alias = AliasOfName(PathName(repo)),
                                    !.inc = IncludePatterns(impl, include),
                                    !.exd = ExcludeSet(exclude),
                                    !.todo = dirs[repo]]]]
    /\ UNCHANGED <<packs, outfile, hist>>

\* build_pack(repo, include, exclude_dirs, max_pack_mb) is called.
BuildCall(p, repo, include, exclude, mb) ==
    LET args == [NoArgs EXCEPT !.repo = repo, !.include = include,
                               !.exclude = exclude, !.max_pack_mb = mb]
    IN  /\ proc[p].pc = "idle"
        /\ ncalls' = ncalls + 1
        /\ UNCHANGED <<impl, os_name, today, dirs>>
        /\ IF (impl = "server" /\ mb < 1) \/ ~ResolvesRepo(repo)
           THEN Reject(p, "build", args, "invalid-argument")
           ELSE BuildBegin(p, Entered("build", args), repo, include, exclude, mb, "none")

\* One iteration of the walk, in whatever order rglob yields the entries.
BuildScan(p) ==
    /\ proc[p].pc = "b_scan"
    /\ \E e \in proc[p].b.todo :
          proc' = [proc EXCEPT ![p].b = ScanEntry(impl, os_name, proc[p].b, e)]
    /\ UNCHANGED <<impl, os_name, today, dirs, packs, temps, outfile, ncalls, hist>>

\* After the walk: meta, the pack path, and the archive.  server.py and the
\* mcp server write it to a temp file; kmgr.py opens the pack path itself
\* for writing, which truncates the file that is there.
BuildWrite(p) ==
    LET b == proc[p].b
        pack == PackFileName(b.alias, today)
        arc == Archive(BuildMembers(os_name, b, today))
    IN  /\ proc[p].pc = "b_scan"
        /\ b.todo = {}
        /\ UNCHANGED <<impl, os_name, today, dirs, outfile, ncalls>>
        /\ IF impl = "server" /\ ~SanitizeAliasOk(b.alias)
           THEN /\ temps' = temps \ {<<"blob", p>>}
                /\ UNCHANGED packs
                /\ Finish(p, Err("invalid-argument"))
           ELSE IF impl = "kmgr"
           THEN /\ packs' = Put(packs, pack, [exists |-> TRUE, complete |-> FALSE,
                                             writer |-> p, members |-> <<>>])
                /\ proc' = [proc EXCEPT ![p].pc = "b_member",
                                        ![p].b.pack = pack, ![p].b.arc = arc]
                /\ UNCHANGED <<temps, hist>>
           ELSE /\ temps' = temps \cup {<<"pack", p>>}
                /\ proc' = [proc EXCEPT ![p].pc = "b_rename",
                                        ![p].b.pack = pack, ![p].b.arc = arc]
                /\ UNCHANGED <<packs, hist>>

\* A member write that goes to whatever file is at the pack path, be it the
\* one the build opened or one renamed over it since.
BuildMember_WritesByPath(p) ==
    LET b == proc[p].b
        f == FileAt(packs, b.pack)
    IN  /\ proc[p].pc = "b_member"
        /\ b.written < Len(b.arc.members)
        /\ packs' = IF f.exists
                    THEN Put(packs, b.pack,
                             [f EXCEPT !.members = Append(f.members, b.arc.members[b.written + 1])])
                    ELSE packs
        /\ proc' = [proc EXCEPT ![p].b.written = b.written + 1]
        /\ UNCHANGED <<impl, os_name, today, dirs, temps, outfile, ncalls, hist>>

\* kmgr.py: one member is written into the open archive at the pack path.  If
\* the path has been renamed over meanwhile, the writes go to the old file.
BuildMember(p) ==
    LET b == proc[p].b
        f == FileAt(packs, b.pack)
    IN  /\ proc[p].pc = "b_member"
        /\ b.written < Len(b.arc.members)
        /\ packs' = IF f.exists /\ f.writer = p
                    THEN Put(packs, b.pack,
                             [f EXCEPT !.members = Append(f.members, b.arc.members[b.written + 1])])
                    ELSE packs
        /\ proc' = [proc EXCEPT ![p].b.written = b.written + 1]
        /\ UNCHANGED <<impl, os_name, today, dirs, temps, outfile, ncalls, hist>>

\* kmgr.py: the archive is closed, which writes its central directory.
BuildClose(p) ==
    LET b == proc[p].b
        f == FileAt(packs, b.pack)
    IN  /\ proc[p].pc = "b_member"
        /\ b.written = Len(b.arc.members)
        /\ packs' = IF f.exists /\ f.writer = p
                    THEN Put(packs, b.pack, [f EXCEPT !.complete = TRUE, !.writer = 0])
                    ELSE packs
        /\ proc' = [proc EXCEPT ![p].pc = "b_check"]
        /\ UNCHANGED <<impl, os_name, today, dirs, temps, outfile, ncalls, hist>>

\* size > max_pack_mb * 1024 * 1024, written without the product, which is
\* beyond the integers of the model checker for the default of 2048.
ExceedsCeiling(size, mb) ==
    mb < 0 \/ (size > 0 /\ (size - 1) \div (1024 * 1024) >= mb)

\* A build that compares the size of the written archive with the ceiling
\* before the rename, and leaves the pack path alone if it is over.
BuildRename_ChecksFirst(p) ==
    /\ proc[p].pc = "b_rename"
    /\ packs' = IF ExceedsCeiling(ArchiveSize(proc[p].b.arc), proc[p].b.mb)
                THEN packs
                ELSE Put(packs, proc[p].b.pack, proc[p].b.arc)
    /\ temps' = temps \ {<<"pack", p>>}
    /\ proc' = [proc EXCEPT ![p].pc = "b_check"]
    /\ UNCHANGED <<impl, os_name, today, dirs, outfile, ncalls, hist>>

\* A build whose rename keeps the log of the pack that is at the path.
BuildRename_CarriesLog(p) ==
    LET old == FileAt(packs, proc[p].b.pack)
        ms == proc[p].b.arc.members
        new == IF old.exists /\ HasMember(old, CHAT)
               THEN Archive(Tuple([i \in 1..Len(ms) |->
                                     IF ms[i].name = CHAT
                                     THEN [name |-> CHAT, data |-> MemberData(old, CHAT)]
                                     ELSE ms[i]]))
               ELSE proc[p].b.arc
    IN  /\ proc[p].pc = "b_rename"
        /\ packs' = Put(packs, proc[p].b.pack, new)
        /\ temps' = temps \ {<<"pack", p>>}
        /\ proc' = [proc EXCEPT ![p].pc = "b_check"]
        /\ UNCHANGED <<impl, os_name, today, dirs, outfile, ncalls, hist>>

\* tmp_pack.replace(pack)
BuildRename(p) ==
    /\ proc[p].pc = "b_rename"
    /\ packs' = Put(packs, proc[p].b.pack, proc[p].b.arc)
    /\ temps' = temps \ {<<"pack", p>>}
    /\ proc' = [proc EXCEPT ![p].pc = "b_check"]
    /\ UNCHANGED <<impl, os_name, today, dirs, outfile, ncalls, hist>>

\* The size check on whatever is at the pack path now, the removal of the
\* blob's temp file, and the return: to the caller of build_pack, or into
\* the append or export that called it.
BuildCheck(p) ==
    LET b == proc[p].b
        f == FileAt(packs, b.pack)
    IN  /\ proc[p].pc = "b_check"
        /\ temps' = temps \ {<<"blob", p>>}
        /\ UNCHANGED <<impl, os_name, today, dirs, packs, outfile, ncalls>>
        /\ IF ~f.exists
           THEN Finish(p, Err("internal"))
           ELSE IF ExceedsCeiling(ArchiveSize(f), b.mb)
           THEN Finish(p, Err("size-ceiling-exceeded"))
           ELSE IF proc[p].ret = "none"
           THEN Finish(p, Ok(b.pack, ArchiveSize(f)))
           ELSE /\ proc' = [proc EXCEPT ![p].pc = proc[p].ret, ![p].ret = "none",
                                        ![p].b = NoBuild]
                /\ UNCHANGED hist

(***************************************************************************)
(* append_chat                                                             *)
(***************************************************************************)
Roles == {Chars("system"), Chars("user"), Chars("assistant"), Chars("tool")}

MAX_CONTENT_BYTES == 2 * 1024 * 1024

\* The argument checks of append_chat.  server.py: the role, content.strip(),
\* and the encoded length; the others: the role, bool(content), and len(content).
AppendArgsOk(im, role, content) ==
    /\ role \in Roles
    /\ IF im = "server"
       THEN Strip(content) # <<>> /\ Utf8Len(content) <= MAX_CONTENT_BYTES
       ELSE content # <<>> /\ Len(content) <= MAX_CONTENT_BYTES

\* hashlib.sha1(content.encode(UTF8)).hexdigest()
Checksum(content) == Sha1Hex(Utf8Encode(content))

\* json.dumps({"ts":..,"role":..,"content":..,"cksum":..}, ensure_ascii=False,
\*            separators=(",", ":"))
LogLine(day, role, content) ==
    Chars("{\"ts\":") \o JsonStr(TimeStamp(day))
    \o Chars(",\"role\":") \o JsonStr(role)
    \o Chars(",\"content\":") \o JsonStr(content)
    \o Chars(",\"cksum\":") \o JsonStr(Checksum(content)) \o Chars("}")

\* str.rfind(needle): the 0-based index of the last occurrence, or -1.
RFind(s, needle) ==
    LET at == {i \in 0..(Len(s) - Len(needle)) : SubSeq(s, i + 1, i + Len(needle)) = needle}
    IN  IF at = {} THEN -1 ELSE CHOOSE i \in at : \A k \in at : k <= i

\* A dedup test that looks for the content itself, not for its checksum.
DedupNeedle_Content(im, line, content) == content

\* A dedup test that looks for the line from its role field on: the role,
\* the content and the checksum.
DedupNeedle_FromRole(im, line, content) ==
    SubSeq(line, RFind(line, Chars(",\"role\":")) + 1, Len(line))

\* What the dedup test looks for in the log text.  server.py and the mcp server:
\* cksum.  kmgr.py: line[line.rfind('"cksum":"') + 9 : -2].
DedupNeedle(im, line, content) ==
    IF im = "kmgr"
    THEN SubSeq(line, RFind(line, Chars("\"cksum\":\"")) + 9 + 1, Len(line) - 2)
    ELSE Checksum(content)

\* tmp_chat.read_text(encoding=UTF8, errors="ignore")
ReadLogText(bytes) == UniversalNewlines(Utf8DecodeIgnore(bytes))

\* A dedup test that runs whatever the dedup argument says.
IsDuplicate_IgnoresFlag(im, dedup, existing, line, content) ==
    Contains(ReadLogText(existing), DedupNeedle(im, line, content))

\* A dedup test that looks for an entry whose content and checksum fields
\* are those of the new line.
IsDuplicate_MatchesEntry(im, dedup, existing, line, content) ==
    dedup /\ Contains(ReadLogText(existing),
                      Chars(",\"content\":") \o JsonStr(content)
                      \o Chars(",\"cksum\":") \o JsonStr(Checksum(content)) \o Chars("}"))

\* The dedup test: `if dedup: if cksum in existing: return ... 0`.
IsDuplicate(im, dedup, existing, line, content) ==
    dedup /\ Contains(ReadLogText(existing), DedupNeedle(im, line, content))

\* Writing text through a file opened in text mode: "\n" becomes os.linesep.
WriteText(os, text) ==
    LET EolAt(t, i) == IF t[i] = "\n" /\ os = "nt" THEN Chars("\r\n") ELSE <<t[i]>>
    IN  Utf8Encode(FlatMap(EolAt, text, 1, Len(text)))

\* A replacement that writes the new archive with the named member alone.
ZipReplaced_DropsOthers(a, name, data) == Archive(<< [name |-> name, data |-> data] >>)

\* The last line of a log, with its line end.
LastLine(data) ==
    LET ends == {i \in 1..(Len(data) - 1) : data[i] = "\n"}
        from == IF ends = {} THEN 0 ELSE CHOOSE i \in ends : \A k \in ends : k <= i
    IN  SubSeq(data, from + 1, Len(data))

\* A replacement that adds the new line to the log the archive holds now,
\* not to the log that was extracted.
ZipReplaced_Merges(a, name, data) ==
    LET now == IF HasMember(a, name) THEN MemberData(a, name) ELSE <<>>
    IN  Archive([i \in 1..Len(a.members) |->
                    IF a.members[i].name = name
                    THEN [name |-> name, data |-> now \o LastLine(data)]
                    ELSE a.members[i]] \o <<>>)

\* A replacement that writes the archive in place: what is at the pack path
\* is an archive still open for writing.
ZipReplaced_InPlace(a, name, data) ==
    [exists |-> TRUE, complete |-> FALSE, writer |-> 0,
     members |-> << [name |-> name, data |-> data] >>]

\* A replacement that writes the new line alone as the log.
ZipReplaced_OnlyNewLine(a, name, data) ==
    Archive([i \in 1..Len(a.members) |->
                IF a.members[i].name = name
                THEN [name |-> name, data |-> LastLine(data)]
                ELSE a.members[i]] \o <<>>)

\* A replacement that copies every member and adds the new one after them.
ZipReplaced_AddsMember(a, name, data) ==
    Archive(Append(a.members, [name |-> name, data |-> data]))

\* A replacement that notices that the log of the archive is shorter than
\* the log that was extracted, and then adds the new line to the log of the
\* archive.
ZipReplaced_DropsStaleLog(a, name, data) ==
    LET now == IF HasMember(a, name) THEN MemberData(a, name) ELSE <<>>
        stale == Len(now) < Len(data) - Len(LastLine(data))
    IN  Archive([i \in 1..Len(a.members) |->
                    IF a.members[i].name = name
                    THEN [name |-> name,
                          data |-> IF stale THEN now \o LastLine(data) ELSE data]
                    ELSE a.members[i]] \o <<>>)

\* _zip_replace: every member is copied but the named one, which is written
\* from the new content; if no member has the name, it is added at the end.
ZipReplaced(a, name, data) ==
    LET copied == Tuple([i \in 1..Len(a.members) |->
                            IF a.members[i].name = name
                            THEN [name |-> name, data |-> data]
                            ELSE a.members[i]])
    IN  Archive(IF HasMember(a, name) THEN copied
                ELSE Append(copied, [name |-> name, data |-> data]))

\* append_chat(role, content, repo, dedup) is called: the argument checks,
\* _resolve_repo, the pack path, and build_pack(repo) if no file is there.
AppendCall(p, role, content, repo, dedup) ==
    LET args == [NoArgs EXCEPT !.role = role, !.content = content,
                               !.repo = repo, !.dedup = dedup]
        alias == AliasOfName(PathName(repo))
        pack == PackFileName(alias, today)
        r == [Entered("append", args) EXCEPT !.pack = pack]
    IN  /\ proc[p].pc = "idle"
        /\ ncalls' = ncalls + 1
        /\ UNCHANGED <<impl, os_name, today, dirs>>
        /\ IF \/ ~AppendArgsOk(impl, role, content)
              \/ ~ResolvesRepo(repo)
              \/ (impl = "server" /\ ~SanitizeAliasOk(alias))
           THEN Reject(p, "append", args, "invalid-argument")
           ELSE IF ~FileAt(packs, pack).exists
           THEN BuildBegin(p, r, repo, <<>>, <<>>, 2048, "a_open")
           ELSE /\ proc' = [proc EXCEPT ![p] = [r EXCEPT !.pc = "a_open"]]
                /\ UNCHANGED <<packs, temps, outfile, hist>>

\* The log member is extracted, the line is made, the dedup test runs, and
\* the line is added to the extracted log.
AppendOpen(p) ==
    LET r == proc[p]
        f == FileAt(packs, r.pack)
        existing == IF HasMember(f, CHAT) THEN MemberData(f, CHAT) ELSE <<>>
        line == LogLine(today, r.args.role, r.args.content)
    IN  /\ r.pc = "a_open"
        /\ UNCHANGED <<impl, os_name, today, dirs, packs, outfile, ncalls>>
        /\ IF ~Readable(packs, r.pack)
           THEN /\ UNCHANGED temps
                /\ Finish(p, Err("internal"))
           ELSE IF IsDuplicate(impl, r.args.dedup, existing, line, r.args.content)
           THEN /\ UNCHANGED temps
                /\ Finish(p, Ok(r.pack, 0))
           ELSE /\ temps' = temps \cup {<<"chat", p>>}
                /\ proc' = [proc EXCEPT ![p].pc = "z_open", ![p].line = line,
                              ![p].tmp_chat = existing \o WriteText(os_name, line \o <<"\n">>)]
                /\ UNCHANGED hist

\* _zip_replace reads the archive at the pack path and writes the new archive
\* to a temp file.  If the read fails, server.py and the mcp server remove that
\* temp file; kmgr.py leaves it.
ZipOpen(p) ==
    LET r == proc[p]
    IN  /\ r.pc = "z_open"
        /\ UNCHANGED <<impl, os_name, today, dirs, packs, outfile, ncalls>>
        /\ IF ~Readable(packs, r.pack)
           THEN /\ temps' = (temps \ {<<"chat", p>>})
                            \cup (IF impl = "kmgr" THEN {<<"pack", p>>} ELSE {})
                /\ Finish(p, Err("internal"))
           ELSE /\ temps' = temps \cup {<<"pack", p>>}
                /\ proc' = [proc EXCEPT ![p].pc = "z_rename",
                              ![p].arc = ZipReplaced(FileAt(packs, r.pack), CHAT, r.tmp_chat)]
                /\ UNCHANGED hist

\* A rename that gives way when the pack at the path no longer has the meta,
\* index and blob the member replace copied.
ZipRename_YieldsToNewer(p) ==
    LET r == proc[p]
        cur == FileAt(packs, r.pack)
        same == \A n \in {META, INDEX, BLOB} :
                    HasMember(cur, n) /\ MemberData(cur, n) = MemberData(r.arc, n)
    IN  /\ r.pc = "z_rename"
        /\ packs' = IF same THEN Put(packs, r.pack, r.arc) ELSE packs
        /\ temps' = temps \ {<<"pack", p>>, <<"chat", p>>}
        /\ UNCHANGED <<impl, os_name, today, dirs, outfile, ncalls>>
        /\ Finish(p, Ok(r.pack, Len(r.line) + 1))

\* tmp_pack.replace(pack), and append_chat returns len(line) + 1.
ZipRename(p) ==
    LET r == proc[p]
    IN  /\ r.pc = "z_rename"
        /\ packs' = Put(packs, r.pack, r.arc)
        /\ temps' = temps \ {<<"pack", p>>, <<"chat", p>>}
        /\ UNCHANGED <<impl, os_name, today, dirs, outfile, ncalls>>
        /\ Finish(p, Ok(r.pack, Len(r.line) + 1))

(***************************************************************************)
(* export_context                                                          *)
(***************************************************************************)
MAX_QUERY_CHARS == 8192
MIN_EXPORT_BYTES == 1024
MAX_EXPORT_BYTES == 10485760
PREVIEW_CHARS == 2000

\* The argument checks of export_context.  server.py: query.strip(), the
\* length of the query, and the range of max_bytes; the others: bool(query)
\* and the range.
ExportArgsOk(im, query, max_bytes) ==
    /\ IF im = "server"
       THEN Strip(query) # <<>> /\ Len(query) <= MAX_QUERY_CHARS
       ELSE query # <<>>
    /\ MIN_EXPORT_BYTES <= max_bytes
    /\ max_bytes <= MAX_EXPORT_BYTES

\* json.dumps({"type":"chat","data":ln}, ensure_ascii=False, separators=(",",":"))
ChatHit(ln) == Chars("{\"type\":\"chat\",\"data\":") \o JsonStr(ln) \o Chars("}")

\* json.dumps({"type":"repo","path":..,"start":..,"length":..,"preview":s[:2000]}, ...)
RepoHit(pth, start, length, s) ==
    Chars("{\"type\":\"repo\",\"path\":") \o JsonStr(pth)
    \o Chars(",\"start\":") \o IntToStr(start)
    \o Chars(",\"length\":") \o IntToStr(length)
    \o Chars(",\"preview\":") \o JsonStr(Take(s, PREVIEW_CHARS)) \o Chars("}")

\* z.read(name).decode(UTF8, "ignore").splitlines()
MemberLines(a, name) == SplitLines(Utf8DecodeIgnore(MemberData(a, name)))

\* An index row the loop cannot use: fewer than four fields, or an offset or
\* length that int() rejects.  server.py and the mcp server skip such a row;
\* kmgr.py raises on it.
RowMalformed(row) ==
    LET parts == Split(row, "\t")
    IN  Len(parts) < 4 \/ ~IsDigits(parts[2]) \/ ~IsDigits(parts[3])

\* blob[start:start + length].decode(UTF8, "ignore")
BlobSlice(blob, start, length) ==
    Utf8DecodeIgnore(SubSeq(blob, start + 1,
                            IF start + length < Len(blob) THEN start + length ELSE Len(blob)))

\* The hits of a query, as the JSON texts of the output lines: the log's hits
\* in log order, then the index's hits in index order.
Hits(a, query) ==
    LET q == Lower(query)
        chat == MemberLines(a, CHAT)
        idx == MemberLines(a, INDEX)
        blob == MemberData(a, BLOB)
        ChatAt(lines, i) ==
            IF lines[i] # <<>> /\ Contains(Lower(lines[i]), q)
            THEN << ChatHit(lines[i]) >> ELSE <<>>
        RowAt(rows, i) ==
            IF rows[i] = <<>> \/ RowMalformed(rows[i]) THEN <<>>
            ELSE LET parts == Split(rows[i], "\t")
                     start == ParseInt(parts[2])
                     length == ParseInt(parts[3])
                     t == BlobSlice(blob, start, length)
                 IN  IF Contains(Lower(t), q)
                     THEN << RepoHit(parts[1], start, length, t) >> ELSE <<>>
    IN  FlatMap(ChatAt, chat, 1, Len(chat)) \o FlatMap(RowAt, idx, 1, Len(idx))

\* need = len(js.encode(UTF8)) + 1, for each hit
Needs(hits) == Tuple([i \in 1..Len(hits) |-> Utf8Len(hits[i]) + 1])

ValueAt(s, i) == s[i]

\* total after the first k hits
Total(needs, k) == SumMap(ValueAt, needs, 1, k)

\* A loop that writes the first hit whatever its size.
Taken_AtLeastOne(needs, max_bytes) ==
    IF Len(needs) = 0 THEN 0
    ELSE CHOOSE k \in 1..Len(needs) :
            /\ k > 1 => Total(needs, k) <= max_bytes
            /\ k < Len(needs) => Total(needs, k + 1) > max_bytes

\* The accumulation loop: how many hits it writes before `total + need >
\* max_bytes` breaks it.  A hit that does not fit ends the loop; no later
\* hit is tried.
Taken(needs, max_bytes) ==
    CHOOSE k \in 0..Len(needs) :
        /\ Total(needs, k) <= max_bytes
        /\ k < Len(needs) => Total(needs, k + 1) > max_bytes

\* A buffer that ends with a marker line when the loop left hits out.
Payload_MarksCut(hits, k) ==
    Concat([i \in 1..k |-> hits[i] \o <<"\n">>])
    \o (IF k < Len(hits) THEN Chars("{\"type\":\"truncated\"}\n") ELSE <<>>)

\* buf.getvalue() after the loop
Payload(hits, k) == Concat([i \in 1..k |-> hits[i] \o <<"\n">>])

\* export_context(query, repo, max_bytes) is called: the argument checks,
\* _resolve_repo, the pack path, and build_pack(repo) if no file is there.
ExportCall(p, query, repo, max_bytes) ==
    LET args == [NoArgs EXCEPT !.query = query, !.repo = repo, !.max_bytes = max_bytes]
        alias == AliasOfName(PathName(repo))
        pack == PackFileName(alias, today)
        r == [Entered("export", args) EXCEPT !.pack = pack]
    IN  /\ proc[p].pc = "idle"
        /\ ncalls' = ncalls + 1
        /\ UNCHANGED <<impl, os_name, today, dirs>>
        /\ IF \/ ~ExportArgsOk(impl, query, max_bytes)
              \/ ~ResolvesRepo(repo)
              \/ (impl = "server" /\ ~SanitizeAliasOk(alias))
           THEN Reject(p, "export", args, "invalid-argument")
           ELSE IF ~FileAt(packs, pack).exists
           THEN BuildBegin(p, r, repo, <<>>, <<>>, 2048, "e_read")
           ELSE /\ proc' = [proc EXCEPT ![p] = [r EXCEPT !.pc = "e_read"]]
                /\ UNCHANGED <<packs, temps, outfile, hist>>

\* The three members are read, the hits are collected and accumulated, and
\* the payload is written to a temp file.
ExportRead(p) ==
    LET r == proc[p]
        f == FileAt(packs, r.pack)
        idx == MemberLines(f, INDEX)
        hits == Hits(f, r.args.query)
        needs == Needs(hits)
        k == Taken(needs, r.args.max_bytes)
        total == Total(needs, k)
    IN  /\ r.pc = "e_read"
        /\ UNCHANGED <<impl, os_name, today, dirs, packs, outfile, ncalls>>
        /\ IF \/ ~Readable(packs, r.pack)
              \/ \E n \in {INDEX, BLOB, CHAT} : ~HasMember(f, n)
           THEN /\ UNCHANGED temps
                /\ Finish(p, Err("internal"))
           ELSE IF impl = "kmgr" /\ \E i \in 1..Len(idx) : idx[i] # <<>> /\ RowMalformed(idx[i])
           THEN /\ UNCHANGED temps
                /\ Finish(p, Err("internal"))
           ELSE IF total = 0
           THEN /\ UNCHANGED temps
                /\ Finish(p, Err("empty-export-result"))
           ELSE /\ temps' = temps \cup {<<"ctx", p>>}
                /\ proc' = [proc EXCEPT ![p].pc = "e_rename", ![p].total = total,
                              ![p].buf = WriteText(os_name, Payload(hits, k))]
                /\ UNCHANGED hist

\* tmp.replace(out), and export_context returns the accumulated total.
ExportRename(p) ==
    LET r == proc[p]
    IN  /\ r.pc = "e_rename"
        /\ outfile' = [exists |-> TRUE, bytes |-> r.buf]
        /\ temps' = temps \ {<<"ctx", p>>}
        /\ UNCHANGED <<impl, os_name, today, dirs, packs, ncalls>>
        /\ Finish(p, Ok(r.pack, r.total))

\* The clock passes midnight.
DayTick ==
    /\ today < MaxDay
    /\ today' = today + 1
    /\ UNCHANGED <<impl, os_name, dirs, packs, temps, outfile, proc, ncalls, hist>>

(***************************************************************************)
(* Inputs of the runs.                                                     *)
(***************************************************************************)
\* Path(p) of the names below the anchor of the platform.
Root(os, names) == <<Anchor(os)>> \o names

File(rel, bytes) == [rel |-> rel, kind |-> "file", bytes |-> bytes, readable |-> TRUE]
Dir(rel) == [rel |-> rel, kind |-> "dir", bytes |-> <<>>, readable |-> TRUE]

\* A repository with a source file with CRLF line ends, files one and two
\* levels below directories with excluded names, and a file no default
\* pattern matches.
TreeA ==
    { File(<<Chars("a.py")>>, Chars("print('hi')\r\n")),
      Dir(<<Chars("Build")>>),
      File(<<Chars("Build"), Chars("d.py")>>, Chars("print d\n")),
      File(<<Chars("node_modules"), Chars("pkg"), Chars("c.js")>>, Chars("print c\n")),
      File(<<Chars("x.bin")>>, <<"x00", "xFF">>) }

\* A repository with a file with a lone CR, an undecodable byte and a
\* two-byte character, a file that cannot be read, a file whose suffix is in
\* upper case, and a file that has the name of an excluded directory.
TreeB ==
    { File(<<Chars("src"), Chars("b.txt")>>, <<"a", "\r", "b", "xFF", "c", "xC3", "xA9", "\n">>),
      [File(<<Chars("u.py")>>, Chars("u\n")) EXCEPT !.readable = FALSE],
      File(<<Chars("A.PY")>>, Chars("A\n")),
      File(<<Chars("dist")>>, Chars("d\n")) }

Trees == {TreeA, TreeB}

\* The directories a build is run on: an ordinary one, one below a directory
\* that has an excluded name, and one that has an excluded name itself.
RootNames ==
    { <<Chars("w"), Chars("proj")>>,
      <<Chars("build"), Chars("proj")>>,
      <<Chars("w"), Chars("dist")>> }

\* The arguments a build is called with: the defaults, every file included,
\* patterns that match a directory's name and some of the files, a list of
\* excluded names of its own, and a size ceiling of nothing.
BuildArgs ==
    { [include |-> <<>>, exclude |-> <<>>, mb |-> 2048],
      [include |-> <<Chars("*")>>, exclude |-> <<>>, mb |-> 2048],
      [include |-> <<Chars("B*"), Chars("*.py")>>, exclude |-> <<>>, mb |-> 2048],
      [include |-> <<>>, exclude |-> <<Chars("SRC")>>, mb |-> 2048],
      [include |-> <<>>, exclude |-> <<>>, mb |-> 0] }

NoOutFile == [exists |-> FALSE, bytes |-> <<>>]

(***************************************************************************)
(* The build specification: builds, one after the other, of one directory  *)
(* out of several, on either platform, by any of the three classes.        *)
(***************************************************************************)
InitBuild ==
    /\ impl \in Impls
    /\ os_name \in OsNames
    /\ today = 1
    /\ \E names \in RootNames, tree \in Trees :
          dirs = [d \in {Root(os_name, names)} |-> tree]
    /\ packs = << >>
    /\ temps = {}
    /\ outfile = NoOutFile
    /\ proc = [p \in {1} |-> IdleProc]
    /\ ncalls = 0
    /\ hist = << >>

BuildStep(p) ==
    \/ BuildScan(p)
    \/ BuildWrite(p)
    \/ BuildMember(p)
    \/ BuildClose(p)
    \/ BuildRename(p)
    \/ BuildCheck(p)

NextBuild ==
    \/ \E repo \in DOMAIN dirs, a \in BuildArgs :
          ncalls < MaxBuilds /\ BuildCall(1, repo, a.include, a.exclude, a.mb)
    \/ BuildStep(1)

SpecBuild == InitBuild /\ [][NextBuild]_vars

(***************************************************************************)
(* The log specification: builds and appends on one directory, one call    *)
(* after the other, while the clock may pass midnight.                     *)
(***************************************************************************)
TreeS == { File(<<Chars("a.py")>>, Chars("print('hi')\r\n")) }

RootW == <<Chars("w"), Chars("proj")>>

\* The appends of a run: a plain entry, with and without dedup, and one whose
\* content has a quote, a line end and a two-byte character.
LogInputs ==
    { [role |-> Chars("user"), content |-> Chars("hi"), dedup |-> TRUE],
      [role |-> Chars("user"), content |-> Chars("hi"), dedup |-> FALSE],
      [role |-> Chars("assistant"), content |-> Chars("say \"h") \o <<"U+E9", "\n">>,
       dedup |-> TRUE] }

InitLog ==
    /\ impl \in Impls
    /\ os_name \in OsNames
    /\ today = 1
    /\ dirs = [d \in {Root(os_name, RootW)} |-> TreeS]
    /\ packs = << >>
    /\ temps = {}
    /\ outfile = NoOutFile
    /\ proc = [p \in {1} |-> IdleProc]
    /\ ncalls = 0
    /\ hist = << >>

AppendStep(p) ==
    \/ AppendOpen(p)
    \/ ZipOpen(p)
    \/ ZipRename(p)

NextLog ==
    \/ \E repo \in DOMAIN dirs :
          ncalls < MaxCalls /\ BuildCall(1, repo, <<>>, <<>>, 2048)
    \/ \E repo \in DOMAIN dirs, c \in LogInputs :
          ncalls < MaxCalls /\ AppendCall(1, c.role, c.content, repo, c.dedup)
    \/ BuildStep(1)
    \/ AppendStep(1)
    \/ DayTick

SpecLog == InitLog /\ [][NextLog]_vars

(***************************************************************************)
(* The rebuild specification: builds, one after the other, of one          *)
(* directory that does not change, with the same arguments.                *)
(***************************************************************************)
\* A repository with two files the default patterns match, one of them in a
\* directory, and one they do not match.
TreeR ==
    { File(<<Chars("a.py")>>, Chars("print('hi')\r\n")),
      Dir(<<Chars("docs")>>),
      File(<<Chars("docs"), Chars("b.md")>>, Chars("# b\n")),
      File(<<Chars("x.bin")>>, <<"x00", "xFF">>) }

InitRebuild ==
    /\ impl \in Impls
    /\ os_name \in OsNames
    /\ today = 1
    /\ dirs = [d \in {Root(os_name, RootW)} |-> TreeR]
    /\ packs = << >>
    /\ temps = {}
    /\ outfile = NoOutFile
    /\ proc = [p \in {1} |-> IdleProc]
    /\ ncalls = 0
    /\ hist = << >>

NextRebuild ==
    \/ \E repo \in DOMAIN dirs :
          ncalls < MaxRebuilds /\ BuildCall(1, repo, <<>>, <<>>, 2048)
    \/ BuildStep(1)

SpecRebuild == InitRebuild /\ [][NextRebuild]_vars

(***************************************************************************)
(* The skip specification: a build of a directory that holds a file that   *)
(* cannot be read among files that can.  No name in it is an excluded one, *)
(* so that the three classes walk the same files.                          *)
(***************************************************************************)
\* A repository with two readable files, one of them in a directory, a file
\* that cannot be read, and a file with a byte no decoder accepts.
TreeU ==
    { File(<<Chars("a.py")>>, Chars("print('hi')\r\n")),
      [File(<<Chars("u.py")>>, Chars("secret\n")) EXCEPT !.readable = FALSE],
      Dir(<<Chars("docs")>>),
      File(<<Chars("docs"), Chars("b.md")>>, Chars("# b\n")),
      File(<<Chars("c.txt")>>, <<"c", "xFF", "xC3", "xA9", "\n">>) }

InitSkip ==
    /\ impl \in Impls
    /\ os_name \in OsNames
    /\ today = 1
    /\ dirs = [d \in {Root(os_name, RootW)} |-> TreeU]
    /\ packs = << >>
    /\ temps = {}
    /\ outfile = NoOutFile
    /\ proc = [p \in {1} |-> IdleProc]
    /\ ncalls = 0
    /\ hist = << >>

NextSkip ==
    \/ \E repo \in DOMAIN dirs :
          ncalls < MaxBuilds /\ BuildCall(1, repo, <<>>, <<>>, 2048)
    \/ BuildStep(1)

SpecSkip == InitSkip /\ [][NextSkip]_vars

(***************************************************************************)
(* The export specification: appends and exports on one directory, one     *)
(* call after the other; the first call builds the pack.                   *)
(***************************************************************************)
Filler(c, n) == Tuple([i \in 1..n |-> c])

\* The contents appended before an export: a small one, one that makes a line
\* larger than the least budget, and one with the character U+0085.
ExportContents ==
    { Chars("print it"),
      Filler("y", BigLen) \o Chars(" print"),
      <<"a", "U+85">> \o Chars(" print b") }

\* A query in upper case that matches, and one that matches nothing.
Queries == { Chars("PRINT"), Chars("zzz") }

\* The least budget and the default one.
Budgets == { MIN_EXPORT_BYTES, 120000 }

InitExport ==
    /\ impl \in Impls
    /\ os_name \in OsNames
    /\ today = 1
    /\ dirs = [d \in {Root(os_name, RootW)} |-> TreeS]
    /\ packs = << >>
    /\ temps = {}
    /\ outfile = NoOutFile
    /\ proc = [p \in {1} |-> IdleProc]
    /\ ncalls = 0
    /\ hist = << >>

ExportStep(p) ==
    \/ ExportRead(p)
    \/ ExportRename(p)

NextExport ==
    \/ \E repo \in DOMAIN dirs, c \in ExportContents :
          ncalls < MaxCalls /\ AppendCall(1, Chars("user"), c, repo, TRUE)
    \/ \E repo \in DOMAIN dirs, q \in Queries, mx \in Budgets :
          ncalls < MaxCalls /\ ExportCall(1, q, repo, mx)
    \/ BuildStep(1)
    \/ AppendStep(1)
    \/ ExportStep(1)

SpecExport == InitExport /\ [][NextExport]_vars

(***************************************************************************)
(* The cut specification: appends of a small and of a large content and    *)
(* exports of a query that matches both and the indexed file, one call     *)
(* after the other, so that an export meets a hit that does not fit after  *)
(* one that did.                                                           *)
(***************************************************************************)
CutContents == { Chars("print it"), Filler("y", BigLen) \o Chars(" print") }

NextCut ==
    \/ \E repo \in DOMAIN dirs, c \in CutContents :
          ncalls < MaxCutCalls /\ AppendCall(1, Chars("user"), c, repo, TRUE)
    \/ \E repo \in DOMAIN dirs, mx \in Budgets :
          ncalls < MaxCutCalls /\ ExportCall(1, Chars("PRINT"), repo, mx)
    \/ BuildStep(1)
    \/ AppendStep(1)
    \/ ExportStep(1)

SpecCut == InitExport /\ [][NextCut]_vars

(***************************************************************************)
(* The dedup specification: appends, one after the other, of a content, of *)
(* another content that quotes the checksum of the first, and of a third   *)
(* that has nothing to do with either.                                     *)
(***************************************************************************)
\* A content that holds the textual checksum of the content "hi".
QuotingContent == Chars("ref ") \o Checksum(Chars("hi"))

DedupContents == { Chars("hi"), QuotingContent, Chars("yo") }

NextDedup ==
    \/ \E repo \in DOMAIN dirs, c \in DedupContents, d \in BOOLEAN :
          ncalls < MaxDedupCalls /\ AppendCall(1, Chars("user"), c, repo, d)
    \/ BuildStep(1)
    \/ AppendStep(1)

SpecDedup == InitLog /\ [][NextDedup]_vars

(***************************************************************************)
(* The case specification: appends and exports, one call after the other,  *)
(* with queries that differ from each other in letter case alone.          *)
(***************************************************************************)
\* Contents with a word that ends in a small sigma, and with one that ends
\* in a capital sigma.
CaseContents ==
    { Chars("Print a") \o <<"U+3C3">>,
      Chars("x A") \o <<"U+3A3">> }

\* A word in upper and in lower case, and a word of a Latin letter and a
\* sigma with the sigma in capital and in small form.
CaseQueries ==
    { Chars("PRINT"), Chars("print"), <<"a", "U+3A3">>, <<"a", "U+3C3">> }

NextCase ==
    \/ \E repo \in DOMAIN dirs, c \in CaseContents :
          ncalls < MaxCaseCalls /\ AppendCall(1, Chars("user"), c, repo, TRUE)
    \/ \E repo \in DOMAIN dirs, q \in CaseQueries :
          ncalls < MaxCaseCalls /\ ExportCall(1, q, repo, MIN_EXPORT_BYTES)
    \/ BuildStep(1)
    \/ AppendStep(1)
    \/ ExportStep(1)

SpecCase == InitExport /\ [][NextCase]_vars

(***************************************************************************)
(* The missing log specification: appends and exports, one call after the  *)
(* other, on a pack file that is in place with its meta, index and blob    *)
(* members and without a log member.                                       *)
(***************************************************************************)
\* The locals of a build of the directory after its walk.
RECURSIVE Scanned(_, _, _)
Scanned(im, os, b) ==
    IF b.todo = {} THEN b
    ELSE Scanned(im, os, ScanEntry(im, os, b, CHOOSE e \in b.todo : TRUE))

\* The pack of the directory as a build writes it, less its last member.
PackWithoutLog(im, os, repo, tree, day) ==
    LET b == Scanned(im, os, [NoBuild EXCEPT !.repo = repo, !.root = repo,
                                             !.alias = AliasOfName(PathName(repo)),
                                             !.inc = IncludePatterns(im, <<>>),
                                             !.exd = ExcludeSet(<<>>),
                                             !.todo = tree])
    IN  Archive(SubSeq(BuildMembers(os, b, day), 1, 3))

InitNoLog ==
    /\ impl \in Impls
    /\ os_name \in OsNames
    /\ today = 1
    /\ dirs = [d \in {Root(os_name, RootW)} |-> TreeS]
    /\ packs = [f \in {PackFileName(AliasOfName(PathName(Root(os_name, RootW))), 1)} |->
                  PackWithoutLog(impl, os_name, Root(os_name, RootW), TreeS, 1)]
    /\ temps = {}
    /\ outfile = NoOutFile
    /\ proc = [p \in {1} |-> IdleProc]
    /\ ncalls = 0
    /\ hist = << >>

NextNoLog ==
    \/ \E repo \in DOMAIN dirs, c \in {Chars("hi"), Chars("print it")}, d \in BOOLEAN :
          ncalls < MaxNoLogCalls /\ AppendCall(1, Chars("user"), c, repo, d)
    \/ \E repo \in DOMAIN dirs, q \in Queries, mx \in Budgets :
          ncalls < MaxNoLogCalls /\ ExportCall(1, q, repo, mx)
    \/ AppendStep(1)
    \/ ExportStep(1)

SpecNoLog == InitNoLog /\ [][NextNoLog]_vars

(***************************************************************************)
(* The validation specification: appends and exports with arguments the    *)
(* checks accept and arguments they must refuse, one call after the other. *)
(***************************************************************************)
\* A content of no more than MAX_CONTENT_BYTES characters that encodes to
\* more than MAX_CONTENT_BYTES bytes: each character takes two bytes.
OversizeContent == Filler("U+E9", MAX_CONTENT_BYTES \div 2 + 1)

\* Appends: a good one, a role that is none of the four, and an empty content.
ValidateAppends ==
    { [role |-> Chars("user"), content |-> Chars("hi")],
      [role |-> Chars("admin"), content |-> Chars("hi")],
      [role |-> Chars("user"), content |-> <<>>] }

\* A query one character longer than the ceiling.
LongQuery == Filler("z", MAX_QUERY_CHARS + 1)

\* Exports: a good one, an empty query, a query over the ceiling, and budgets
\* just outside and on the two ends of the range.
ValidateExports ==
    { [query |-> Chars("hi"), max_bytes |-> MIN_EXPORT_BYTES],
      [query |-> <<>>, max_bytes |-> MIN_EXPORT_BYTES],
      [query |-> LongQuery, max_bytes |-> MIN_EXPORT_BYTES],
      [query |-> Chars("hi"), max_bytes |-> MIN_EXPORT_BYTES - 1],
      [query |-> Chars("hi"), max_bytes |-> MAX_EXPORT_BYTES + 1],
      [query |-> Chars("hi"), max_bytes |-> MAX_EXPORT_BYTES] }

InitValidate ==
    /\ impl \in Impls
    /\ os_name = "posix"
    /\ today = 1
    /\ dirs = [d \in {Root(os_name, RootW)} |-> TreeS]
    /\ packs = << >>
    /\ temps = {}
    /\ outfile = NoOutFile
    /\ proc = [p \in {1} |-> IdleProc]
    /\ ncalls = 0
    /\ hist = << >>

\* The oversize content is appended to a pack whose log holds an entry.
NextValidate ==
    \/ \E repo \in DOMAIN dirs, a \in ValidateAppends :
          ncalls < MaxValidateCalls /\ AppendCall(1, a.role, a.content, repo, TRUE)
    \/ \E repo \in DOMAIN dirs :
          /\ ncalls < MaxValidateCalls
          /\ \E path \in DOMAIN packs :
                HasMember(packs[path], CHAT) /\ MemberData(packs[path], CHAT) # <<>>
          /\ AppendCall(1, Chars("user"), OversizeContent, repo, FALSE)
    \/ \E repo \in DOMAIN dirs, e \in ValidateExports :
          ncalls < MaxValidateCalls /\ ExportCall(1, e.query, repo, e.max_bytes)
    \/ BuildStep(1)
    \/ AppendStep(1)
    \/ ExportStep(1)

SpecValidate == InitValidate /\ [][NextValidate]_vars

(***************************************************************************)
(* The ceiling specification: appends, exports and builds with and without *)
(* a size ceiling that the pack exceeds, one call after the other.         *)
(***************************************************************************)
\* The default ceiling, and one that every archive exceeds.
Ceilings == {2048, 0}

NextCeiling ==
    \/ \E repo \in DOMAIN dirs, mb \in Ceilings :
          ncalls < MaxCeilingCalls /\ BuildCall(1, repo, <<>>, <<>>, mb)
    \/ \E repo \in DOMAIN dirs :
          ncalls < MaxCeilingCalls /\ AppendCall(1, Chars("user"), Chars("hi"), repo, TRUE)
    \/ \E repo \in DOMAIN dirs :
          ncalls < MaxCeilingCalls /\ ExportCall(1, Chars("hi"), repo, MIN_EXPORT_BYTES)
    \/ BuildStep(1)
    \/ AppendStep(1)
    \/ ExportStep(1)

SpecCeiling == InitLog /\ [][NextCeiling]_vars

(***************************************************************************)
(* The race specification: two processes call build, append and export on  *)
(* one directory, and their steps interleave.                              *)
(***************************************************************************)
Procs == {1, 2}

InitRace ==
    /\ impl \in Impls
    /\ os_name = "posix"
    /\ today = 1
    /\ dirs = [d \in {Root(os_name, RootW)} |-> TreeS]
    /\ packs = << >>
    /\ temps = {}
    /\ outfile = NoOutFile
    /\ proc = [p \in Procs |-> IdleProc]
    /\ ncalls = 0
    /\ hist = << >>

NextRace ==
    \/ \E p \in Procs, repo \in DOMAIN dirs :
          ncalls < MaxRaceCalls /\ BuildCall(p, repo, <<>>, <<>>, 2048)
    \/ \E p \in Procs, repo \in DOMAIN dirs :
          ncalls < MaxRaceCalls /\ AppendCall(p, Chars("user"), Chars("hi"), repo, TRUE)
    \/ \E p \in Procs, repo \in DOMAIN dirs :
          ncalls < MaxRaceCalls /\ ExportCall(p, Chars("hi"), repo, MIN_EXPORT_BYTES)
    \/ \E p \in Procs : BuildStep(p)
    \/ \E p \in Procs : AppendStep(p)
    \/ \E p \in Procs : ExportStep(p)

SpecRace == InitRace /\ [][NextRace]_vars

(***************************************************************************)
(* The append race specification: two processes append to the pack of one  *)
(* directory, each its own content, and their steps interleave.            *)
(***************************************************************************)
RaceContent(p) == IF p = 1 THEN Chars("hi") ELSE Chars("yo")

NextAppendRace ==
    \/ \E p \in Procs, repo \in DOMAIN dirs :
          ncalls < MaxAppends /\ AppendCall(p, Chars("user"), RaceContent(p), repo, TRUE)
    \/ \E p \in Procs : BuildStep(p)
    \/ \E p \in Procs : AppendStep(p)

SpecAppendRace == InitRace /\ [][NextAppendRace]_vars

(***************************************************************************)
(* The rebuild race specification: one process appends to the pack of a    *)
(* directory, another rebuilds it with include patterns of its own, and    *)
(* their steps interleave.                                                 *)
(***************************************************************************)
\* Patterns that match no file of the directory: the rebuilt index is empty.
RebuildInclude == << Chars("*.md") >>

NextRebuildRace ==
    \/ \E repo \in DOMAIN dirs, c \in {Chars("hi"), Chars("yo")} :
          ncalls < MaxRebuildRaceCalls /\ AppendCall(1, Chars("user"), c, repo, TRUE)
    \/ \E repo \in DOMAIN dirs :
          ncalls < MaxRebuildRaceCalls /\ BuildCall(2, repo, RebuildInclude, <<>>, 2048)
    \/ \E p \in Procs : BuildStep(p)
    \/ \E p \in Procs : AppendStep(p)

SpecRebuildRace == InitRace /\ [][NextRebuildRace]_vars

(***************************************************************************)
(* The coherence specification: one process appends and exports, another   *)
(* builds with patterns of its own, all on the pack of one directory, and  *)
(* their steps interleave.  The first append or export builds the pack     *)
(* with the default patterns.                                              *)
(***************************************************************************)
NextCoherent ==
    \/ \E repo \in DOMAIN dirs :
          ncalls < MaxCoherentCalls /\ AppendCall(1, Chars("user"), Chars("hi"), repo, TRUE)
    \/ \E repo \in DOMAIN dirs :
          ncalls < MaxCoherentCalls /\ BuildCall(2, repo, RebuildInclude, <<>>, 2048)
    \/ \E repo \in DOMAIN dirs :
          ncalls < MaxCoherentCalls /\ ExportCall(1, Chars("print"), repo, MIN_EXPORT_BYTES)
    \/ \E p \in Procs : BuildStep(p)
    \/ \E p \in Procs : AppendStep(p)
    \/ \E p \in Procs : ExportStep(p)

SpecCoherent == InitRace /\ [][NextCoherent]_vars

(***************************************************************************)
(* The roles specification: appends with dedup = true of two contents      *)
(* under the four roles, one call after the other, on one directory.       *)
(***************************************************************************)
NextRoles ==
    \/ \E repo \in DOMAIN dirs, role \in Roles, c \in {Chars("hi"), Chars("yo")} :
          ncalls < MaxRoleCalls /\ AppendCall(1, role, c, repo, TRUE)
    \/ BuildStep(1)
    \/ AppendStep(1)

SpecRoles == InitLog /\ [][NextRoles]_vars

(***************************************************************************)
(* The days specification: appends of one content and exports, one call    *)
(* after the other, on one directory, while the clock may pass midnight.   *)
(***************************************************************************)
NextDays ==
    \/ \E repo \in DOMAIN dirs :
          ncalls < MaxDaysCalls /\ AppendCall(1, Chars("user"), Chars("hello"), repo, TRUE)
    \/ \E repo \in DOMAIN dirs :
          ncalls < MaxDaysCalls /\ ExportCall(1, Chars("HELLO"), repo, MIN_EXPORT_BYTES)
    \/ BuildStep(1)
    \/ AppendStep(1)
    \/ ExportStep(1)
    \/ DayTick

SpecDays == InitLog /\ [][NextDays]_vars

(***************************************************************************)
(* The directories specification: builds and appends, one call after the   *)
(* other, each for one of three directories, two of which have the same    *)
(* base name.  No alias is registered.                                     *)
(***************************************************************************)
RootX == <<Chars("x"), Chars("proj")>>
RootL == <<Chars("w"), Chars("lib")>>

InitCollide ==
    /\ impl \in Impls
    /\ os_name \in OsNames
    /\ today = 1
    /\ dirs = [d \in {Root(os_name, RootW), Root(os_name, RootX), Root(os_name, RootL)} |->
                 IF d = Root(os_name, RootX) THEN TreeR ELSE TreeS]
    /\ packs = << >>
    /\ temps = {}
    /\ outfile = NoOutFile
    /\ proc = [p \in {1} |-> IdleProc]
    /\ ncalls = 0
    /\ hist = << >>

NextCollide ==
    \/ \E repo \in DOMAIN dirs :
          ncalls < MaxCollideCalls /\ BuildCall(1, repo, <<>>, <<>>, 2048)
    \/ \E repo \in DOMAIN dirs :
          ncalls < MaxCollideCalls /\ AppendCall(1, Chars("user"), Chars("hi"), repo, TRUE)
    \/ BuildStep(1)
    \/ AppendStep(1)

SpecCollide == InitCollide /\ [][NextCollide]_vars

(***************************************************************************)
(* The fields specification: appends and exports, one call after the       *)
(* other, with queries that are a role name, a field name, a part of a     *)
(* timestamp and a word of a content.                                      *)
(***************************************************************************)
\* A plain content, and one with the character U+0085.
FieldContents == { Chars("note"), <<"a", "U+85", "b">> }

\* The role in upper case, the name of the checksum field, the month in a
\* timestamp, and the plain content.
FieldQueries == { Chars("USER"), Chars("cksum"), Chars("-11-"), Chars("note") }

NextFields ==
    \/ \E repo \in DOMAIN dirs, c \in FieldContents :
          ncalls < MaxFieldCalls /\ AppendCall(1, Chars("user"), c, repo, TRUE)
    \/ \E repo \in DOMAIN dirs, q \in FieldQueries :
          ncalls < MaxFieldCalls /\ ExportCall(1, q, repo, 120000)
    \/ BuildStep(1)
    \/ AppendStep(1)
    \/ ExportStep(1)

SpecFields == InitLog /\ [][NextFields]_vars

(***************************************************************************)
(* What the properties below observe of a run.                             *)
(***************************************************************************)
\* The call that returned last.
LastCall == hist[Len(hist)]

\* The last call to return was a successful `op`.
Returned(op) ==
    Len(hist) > 0 /\ LastCall.op = op /\ LastCall.result.status = "ok"

\* The bytes of the log member of the file at a pack path; none if there is
\* no such file or member.
LogOf(fs, path) ==
    IF FileAt(fs, path).exists /\ HasMember(FileAt(fs, path), CHAT)
    THEN MemberData(FileAt(fs, path), CHAT)
    ELSE <<>>

\* The number of places at which `needle` occurs in `hay`.
Occurrences(hay, needle) ==
    Cardinality({i \in 0..(Len(hay) - Len(needle)) :
                    SubSeq(hay, i + 1, i + Len(needle)) = needle})

\* The number of entries of a log: each ends with one "\n".
EntryCount(log) == Occurrences(log, <<"\n">>)

\* The last two calls to return were successful appends of the same content
\* to the same pack, and the second found the pack in place.
TwoAppends(dedup) ==
    /\ Len(hist) = 2
    /\ \A i \in 1..2 :
          /\ hist[i].op = "append"
          /\ hist[i].result.status = "ok"
          /\ hist[i].args.dedup = dedup
    /\ hist[1].args.content = hist[2].args.content
    /\ hist[1].args.repo = hist[2].args.repo
    /\ hist[1].result.pack = hist[2].result.pack
    /\ ~hist[2].built

(***************************************************************************)
(* Properties.                                                             *)
(***************************************************************************)
\* C1: while a build runs and after it returns, the file at a pack path is
\* at every instant absent or a complete pack with its four members (the
\* previous one or the new one); a reader that opens the path never finds a
\* partially written archive.
C1_PackPathNeverPartial ==
    \A path \in DOMAIN packs :
        packs[path].exists =>
            /\ packs[path].complete
            /\ MemberNames(packs[path]) = <<META, INDEX, BLOB, CHAT>>

\* C2: a build for an alias and date that already have a pack, whatever
\* number of entries its log holds, leaves at that path a pack whose log
\* member is empty.
C2_RebuildDiscardsLog ==
    (Returned("build") /\ FileAt(LastCall.pre, LastCall.result.pack).exists) =>
        /\ HasMember(FileAt(LastCall.post, LastCall.result.pack), CHAT)
        /\ LogOf(LastCall.post, LastCall.result.pack) = <<>>

\* A build has returned that replaced a pack whose log held entries.
C2_Witness ==
    /\ Returned("build")
    /\ EntryCount(LogOf(LastCall.pre, LastCall.result.pack)) >= 1

\* C3: of two successive appends of identical content with dedup = true and
\* no rebuild in between, the second returns deltaBytes 0 and leaves the
\* pack as it was: the log has the same bytes after it as after the first.
C3_DedupIdempotent ==
    TwoAppends(TRUE) =>
        /\ hist[2].result.value = 0
        /\ hist[2].post = hist[2].pre
        /\ LogOf(hist[2].post, hist[2].result.pack) = LogOf(hist[1].post, hist[1].result.pack)

\* Two such appends have returned, and the first one added its entry.
C3_Witness == TwoAppends(TRUE) /\ hist[1].result.value > 0

\* C4: with dedup = false a valid append returns a non-zero deltaBytes and
\* adds exactly one entry, holding the content, at the end of the log, also
\* when the log already has an entry of that content: after two such appends
\* of identical content the log holds the content twice.
C4_NoDedupAlwaysAppends ==
    /\ (Returned("append") /\ ~LastCall.args.dedup) =>
          LET before == LogOf(LastCall.pre, LastCall.result.pack)
              after == LogOf(LastCall.post, LastCall.result.pack)
              added == SubSeq(after, Len(before) + 1, Len(after))
          IN  /\ LastCall.result.value > 0
              /\ IsPrefix(before, after)
              /\ EntryCount(after) = EntryCount(before) + 1
              /\ Len(added) > 0 /\ added[Len(added)] = "\n"
              /\ Contains(Utf8DecodeIgnore(added),
                          Chars("\"content\":") \o JsonStr(LastCall.args.content))
    /\ TwoAppends(FALSE) =>
          Occurrences(Utf8DecodeIgnore(LogOf(hist[2].post, hist[2].result.pack)),
                      Chars("\"content\":") \o JsonStr(hist[2].args.content)) >= 2

\* Two appends of identical content with dedup = false have returned.
C4_Witness == TwoAppends(FALSE)

\* C5: an append that adds an entry leaves the meta, index and blob members
\* of the pack byte for byte as they were before it, and the pack with the
\* same members.
C5_AppendKeepsOtherMembers ==
    (Returned("append") /\ LastCall.result.value > 0 /\ ~LastCall.built) =>
        LET before == FileAt(LastCall.pre, LastCall.result.pack)
            after == FileAt(LastCall.post, LastCall.result.pack)
        IN  /\ MemberNames(after) = MemberNames(before)
            /\ \A n \in {META, INDEX, BLOB} :
                  HasMember(after, n) /\ MemberData(after, n) = MemberData(before, n)

\* The second of two appends that each added an entry to a pack has returned.
C5_Witness ==
    /\ Returned("append")
    /\ LastCall.result.value > 0
    /\ ~LastCall.built
    /\ EntryCount(LogOf(LastCall.post, LastCall.result.pack)) >= 2

\* The lines of a text that ends each line with "\n".
LinesOf(text) ==
    LET pieces == Split(text, "\n")
    IN  SubSeq(pieces, 1, Len(pieces) - 1)

\* The entries of a log as append wrote them: one per "\n", without the "\r"
\* that a platform's line end puts before it.
LogEntries(log) == LinesOf(UniversalNewlines(Utf8DecodeIgnore(log)))

\* The records of an index: path, offset, length and digest of each row.
IndexRecords(index) ==
    LET rows == LinesOf(Utf8DecodeIgnore(index))
    IN  Tuple([i \in 1..Len(rows) |->
                 LET f == Split(rows[i], "\t")
                 IN  [path |-> f[1], offset |-> ParseInt(f[2]),
                      length |-> ParseInt(f[3]), digest |-> f[4]]])

\* The bytes a record addresses in a blob.
SliceOf(blob, rec) == SubSeq(blob, rec.offset + 1, rec.offset + rec.length)

\* A text matches a query: case-insensitive substring.
Matches(text, query) == Contains(Lower(text), Lower(query))

\* The hits a query has in a pack, each as its output line: the matching
\* log entries in log order, then the matching index records in index order.
MatchingHits(a, query) ==
    LET entries == LogEntries(MemberData(a, CHAT))
        recs == IndexRecords(MemberData(a, INDEX))
        blob == MemberData(a, BLOB)
        EntryAt(es, i) == IF Matches(es[i], query) THEN << ChatHit(es[i]) >> ELSE <<>>
        RecAt(rs, i) ==
            LET t == Utf8DecodeIgnore(SliceOf(blob, rs[i]))
            IN  IF Matches(t, query)
                THEN << RepoHit(rs[i].path, rs[i].offset, rs[i].length, t) >>
                ELSE <<>>
    IN  FlatMap(EntryAt, entries, 1, Len(entries)) \o FlatMap(RecAt, recs, 1, Len(recs))

\* The pack an export call reads.
ExportPack(call) == PackFileName(AliasOfName(PathName(call.args.repo)), call.day0)

\* The lines of the export output file.
OutputLines == LinesOf(UniversalNewlines(Utf8DecodeIgnore(outfile.bytes)))

\* C6: a successful export with maxBytes = X writes an output of at most X
\* bytes, and the bytes value it returns is the byte size of that output and
\* is greater than 0.
C6_ExportWithinBudget ==
    Returned("export") =>
        /\ outfile.exists
        /\ Len(outfile.bytes) <= LastCall.args.max_bytes
        /\ LastCall.result.value = Len(outfile.bytes)
        /\ LastCall.result.value > 0

\* C7: an export that reads its pack fails with empty-export-result exactly
\* when it accumulated no hit: when nothing matches the query, and when the
\* first hit in the fixed order alone needs more than maxBytes, whatever the
\* hits after it need.
C7_EmptyExactlyWhenNoHitFits ==
    (/\ Len(hist) > 0
     /\ LastCall.op = "export"
     /\ LastCall.result.status \in {"ok", "empty-export-result"}) =>
        LET hits == Hits(FileAt(LastCall.post, ExportPack(LastCall)), LastCall.args.query)
        IN  (LastCall.result.status = "empty-export-result")
            <=> (hits = <<>> \/ Utf8Len(hits[1]) + 1 > LastCall.args.max_bytes)

\* An export has failed with empty-export-result on a first hit larger than
\* maxBytes although the hit after it would have fitted.
C7_Witness ==
    /\ Len(hist) > 0
    /\ LastCall.op = "export"
    /\ LastCall.result.status = "empty-export-result"
    /\ LET hits == Hits(FileAt(LastCall.post, ExportPack(LastCall)), LastCall.args.query)
       IN  /\ Len(hits) >= 2
           /\ Utf8Len(hits[1]) + 1 > LastCall.args.max_bytes
           /\ Utf8Len(hits[2]) + 1 <= LastCall.args.max_bytes

\* C8: when all the matching hits together need at most maxBytes, the lines
\* of the output are exactly the matching log entries, each once and in log
\* order, followed by the matching index records, each once and in index
\* order.
C8_ExportExhaustive ==
    Returned("export") =>
        LET hits == MatchingHits(FileAt(LastCall.post, LastCall.result.pack),
                                 LastCall.args.query)
        IN  Total(Needs(hits), Len(hits)) <= LastCall.args.max_bytes
                => OutputLines = hits

\* The files of the built directory that have an ancestor directory, between
\* the root and the file, whose name is an excluded one.
HasExcludedAncestor(e, exclude) ==
    \E i \in 1..(Len(e.rel) - 1) : Lower(e.rel[i]) \in ExcludeSet(exclude)

\* The base name of the file matches one of the include patterns of the call.
MatchesInclude(e, include) ==
    AnyMatch(os_name, e.rel[Len(e.rel)], IF include = <<>> THEN DefaultInclude ELSE include)

\* The records the index of the built pack has for a file of the directory.
RecordsFor(call, e) ==
    LET recs == IndexRecords(MemberData(FileAt(call.post, call.result.pack), INDEX))
    IN  {i \in 1..Len(recs) : recs[i].path = StrPath(os_name, call.args.repo \o e.rel)}

\* C9: for every file under the root that can be read, has a base name that
\* matches an include pattern and is not under a directory with an excluded
\* name, the index of the built pack has exactly one record, the blob slice
\* of that record decodes to the file's content with its line ends
\* normalized to LF, and the record's digest is the hash of that slice.
C9_BuildComplete ==
    Returned("build") =>
        \A e \in dirs[LastCall.args.repo] :
            (/\ e.kind = "file"
             /\ e.readable
             /\ MatchesInclude(e, LastCall.args.include)
             /\ ~HasExcludedAncestor(e, LastCall.args.exclude)) =>
                LET a == FileAt(LastCall.post, LastCall.result.pack)
                    recs == IndexRecords(MemberData(a, INDEX))
                    mine == RecordsFor(LastCall, e)
                IN  /\ Cardinality(mine) = 1
                    /\ \A i \in mine :
                          LET slice == SliceOf(MemberData(a, BLOB), recs[i])
                          IN  /\ Utf8DecodeIgnore(slice) = ReadText(e.bytes)
                              /\ recs[i].digest = Sha1Hex(slice)

\* C10: a build leaves no index record for a file that has, at any depth
\* between the root and the file, an ancestor directory whose name is an
\* excluded one in any letter case, and the rule skips no other file: a
\* readable file with a matching name and no such ancestor has a record.
C10_ExcludedByAnyAncestorOnly ==
    Returned("build") =>
        \A e \in dirs[LastCall.args.repo] :
            e.kind = "file" =>
                IF HasExcludedAncestor(e, LastCall.args.exclude)
                THEN RecordsFor(LastCall, e) = {}
                ELSE (e.readable /\ MatchesInclude(e, LastCall.args.include))
                        => RecordsFor(LastCall, e) # {}

\* The last two calls to return were appends of different content to the same
\* pack, and each returned a non-zero deltaBytes.
TwoAppendsAdded ==
    /\ Len(hist) = 2
    /\ \A i \in 1..2 :
          /\ hist[i].op = "append"
          /\ hist[i].result.status = "ok"
          /\ hist[i].result.value > 0
    /\ hist[1].args.content # hist[2].args.content
    /\ hist[1].result.pack = hist[2].result.pack

\* The log holds an entry of the content.
HoldsEntry(log, content) ==
    Contains(Utf8DecodeIgnore(log), Chars("\"content\":") \o JsonStr(content))

\* C11: appends are not serialized.  The rename that ends an append puts at
\* the pack path the log this append extracted, with its own line added,
\* whatever the path holds at that moment: entries other appends have added
\* since the extraction are overwritten.
C11_RenameOverwritesLog ==
    [][\A p \in DOMAIN proc :
          (proc[p].pc = "z_rename" /\ proc'[p].pc = "idle") =>
              LogOf(packs', proc[p].pack) = proc[p].tmp_chat]_vars

\* Two appends of different content have both returned a non-zero deltaBytes,
\* and the log holds the entry of the one that returned last and not the
\* entry of the other.
C11_Witness ==
    /\ TwoAppendsAdded
    /\ EntryCount(LogOf(packs, hist[2].result.pack)) = 1
    /\ HoldsEntry(LogOf(packs, hist[2].result.pack), hist[2].args.content)
    /\ ~HoldsEntry(LogOf(packs, hist[2].result.pack), hist[1].args.content)

\* C12: the member replace of an append never exposes a partial archive.  No
\* step of an append before its rename changes a file below the packs
\* directory, and the rename changes the pack path alone and puts a complete
\* archive there, once: a reader of the path finds the archive from before
\* or the one with the new log, never a partly written one.
C12_ReplaceNeverPartial ==
    [][\A p \in DOMAIN proc :
          (proc[p].pc \in {"a_open", "z_open", "z_rename"} /\ proc'[p] # proc[p]) =>
              \/ packs' = packs
              \/ /\ proc[p].pc = "z_rename"
                 /\ \A q \in DOMAIN packs' :
                        q # proc[p].pack => q \in DOMAIN packs /\ packs'[q] = packs[q]
                 /\ FileAt(packs', proc[p].pack).exists
                 /\ FileAt(packs', proc[p].pack).complete
                 /\ FileAt(packs', proc[p].pack).writer = 0]_vars

\* An append has replaced the log member of a pack that was in place.
C12_Witness ==
    /\ Returned("append")
    /\ LastCall.result.value > 0
    /\ FileAt(LastCall.pre, LastCall.result.pack).complete
    /\ FileAt(packs, LastCall.result.pack).complete
    /\ FileAt(packs, LastCall.result.pack) # FileAt(LastCall.pre, LastCall.result.pack)

\* The set of (path, length, digest) of the records of the index of the pack
\* a build call left.
RecordSet(call) ==
    LET recs == IndexRecords(MemberData(FileAt(call.post, call.result.pack), INDEX))
    IN  {[path |-> recs[i].path, length |-> recs[i].length, digest |-> recs[i].digest] :
            i \in 1..Len(recs)}

\* The last two calls to return were successful builds of the same directory
\* with the same include patterns and excluded names.
TwoBuilds ==
    /\ Len(hist) = 2
    /\ \A i \in 1..2 : hist[i].op = "build" /\ hist[i].result.status = "ok"
    /\ hist[1].args.repo = hist[2].args.repo
    /\ hist[1].args.include = hist[2].args.include
    /\ hist[1].args.exclude = hist[2].args.exclude

\* C13: two builds of an unchanged directory with the same include patterns
\* and excluded names leave indexes with equal sets of (path, length, digest)
\* records, whatever order the walk of each build yields the files in.
C13_BuildDeterministic == TwoBuilds => RecordSet(hist[1]) = RecordSet(hist[2])

\* Two such builds have returned whose walks went in different orders: the
\* two indexes hold their rows in different sequence.
C13_Witness ==
    /\ TwoBuilds
    /\ Cardinality(RecordSet(hist[1])) >= 2
    /\ MemberData(FileAt(hist[1].post, hist[1].result.pack), INDEX)
         # MemberData(FileAt(hist[2].post, hist[2].result.pack), INDEX)

\* The arguments of an append are ones the specification accepts: one of the
\* four roles, a content that is not empty and that encodes to no more than
\* 2 MiB.
AppendArgsValid(args) ==
    /\ args.role \in Roles
    /\ args.content # <<>>
    /\ Utf8Len(args.content) <= MAX_CONTENT_BYTES

\* C14: an append with a role that is none of the four, an empty content or
\* a content of more than 2 MiB encoded fails with invalid-argument before
\* anything else happens: the call never gets past its entry, builds no
\* pack, and leaves the files below the packs directory as they were.
C14_AppendValidation ==
    /\ \A p \in DOMAIN proc : proc[p].op = "append" => AppendArgsValid(proc[p].args)
    /\ (Len(hist) > 0 /\ LastCall.op = "append" /\ ~AppendArgsValid(LastCall.args)) =>
          /\ LastCall.result.status = "invalid-argument"
          /\ ~LastCall.built
          /\ LastCall.post = LastCall.pre

\* The arguments of an export are ones the specification accepts.
ExportArgsValid(args) ==
    /\ args.query # <<>>
    /\ Len(args.query) <= MAX_QUERY_CHARS
    /\ MIN_EXPORT_BYTES <= args.max_bytes
    /\ args.max_bytes <= MAX_EXPORT_BYTES

\* C15: an export with an empty query, a query of more than 8192 characters
\* or a maxBytes outside [1024, 10485760] fails with invalid-argument before
\* a pack is built or read and before the output file is written: the call
\* never gets past its entry.
C15_ExportValidation ==
    /\ \A p \in DOMAIN proc : proc[p].op = "export" => ExportArgsValid(proc[p].args)
    /\ (Len(hist) > 0 /\ LastCall.op = "export" /\ ~ExportArgsValid(LastCall.args)) =>
          /\ LastCall.result.status = "invalid-argument"
          /\ ~LastCall.built
          /\ LastCall.post = LastCall.pre

\* The files of the directory of a call that a build with the default
\* patterns and excluded names indexes.
DefaultFiles(call) ==
    {e \in dirs[call.args.repo] :
        /\ e.kind = "file"
        /\ e.readable
        /\ MatchesInclude(e, <<>>)
        /\ ~HasExcludedAncestor(e, <<>>)}

\* C16: a valid append or export for an alias with no pack at the current
\* date key runs build first, and one that finds a pack there never does.
\* After a successful append on an absent pack the pack exists, its index
\* and blob are those of the current tree (one record for each file, whose
\* slice is the file's text), and its log holds exactly the one new entry.
C16_LazyBootstrap ==
    (/\ Len(hist) > 0
     /\ LastCall.op \in {"append", "export"}
     /\ LastCall.result.status # "invalid-argument") =>
        LET path == ExportPack(LastCall)
            absent == ~FileAt(LastCall.pre, path).exists
            a == FileAt(LastCall.post, path)
        IN  /\ LastCall.built <=> absent
            /\ (absent /\ Returned("append")) =>
                  /\ LastCall.result.pack = path
                  /\ a.exists /\ a.complete
                  /\ Len(IndexRecords(MemberData(a, INDEX))) = Cardinality(DefaultFiles(LastCall))
                  /\ \A e \in DefaultFiles(LastCall) :
                        /\ Cardinality(RecordsFor(LastCall, e)) = 1
                        /\ \A i \in RecordsFor(LastCall, e) :
                              Utf8DecodeIgnore(SliceOf(MemberData(a, BLOB),
                                                       IndexRecords(MemberData(a, INDEX))[i]))
                                = ReadText(e.bytes)
                  /\ EntryCount(LogOf(LastCall.post, path)) = 1
                  /\ HoldsEntry(LogOf(LastCall.post, path), LastCall.args.content)

\* An append on an absent pack has returned, and after it a call that found
\* the pack in place.
C16_Witness ==
    /\ Len(hist) = 2
    /\ hist[1].op = "append" /\ hist[1].result.status = "ok" /\ hist[1].built
    /\ ~FileAt(hist[1].pre, ExportPack(hist[1])).exists
    /\ hist[2].op = "export" /\ hist[2].result.status = "ok" /\ ~hist[2].built

\* The call is a build that reported size-ceiling-exceeded.
OverCeiling(call) ==
    call.op = "build" /\ call.result.status = "size-ceiling-exceeded"

\* C17: the size check runs after the commit.  When build reports
\* size-ceiling-exceeded, the archive it wrote is at the pack path all the
\* same: complete, with an empty log, whatever the pack before it held, and
\* larger than the ceiling.  The append or export that comes next finds it
\* in place, does not rebuild, and works on it.
C17_CeilingCheckedAfterCommit ==
    /\ (Len(hist) > 0 /\ OverCeiling(LastCall)) =>
          LET a == FileAt(LastCall.post, ExportPack(LastCall))
          IN  /\ a.exists /\ a.complete
              /\ MemberNames(a) = <<META, INDEX, BLOB, CHAT>>
              /\ MemberData(a, CHAT) = <<>>
              /\ ExceedsCeiling(ArchiveSize(a), LastCall.args.max_pack_mb)
    /\ (/\ Len(hist) = 2
        /\ OverCeiling(hist[1])
        /\ hist[2].op \in {"append", "export"}
        /\ hist[2].day0 = hist[1].day1) =>
          /\ ~hist[2].built
          /\ hist[2].pre = hist[1].post
          /\ hist[2].result.status \in {"ok", "empty-export-result"}
          /\ \A n \in {META, INDEX, BLOB} :
                MemberData(FileAt(hist[2].post, ExportPack(hist[2])), n)
                  = MemberData(FileAt(hist[1].post, ExportPack(hist[1])), n)

\* A build has reported size-ceiling-exceeded on a pack path whose pack held
\* a log entry, and the append after it has added its entry to the new pack.
C17_Witness ==
    /\ Len(hist) = 2
    /\ OverCeiling(hist[1])
    /\ EntryCount(LogOf(hist[1].pre, ExportPack(hist[1]))) >= 1
    /\ hist[2].op = "append" /\ hist[2].result.status = "ok" /\ hist[2].result.value > 0
    /\ EntryCount(LogOf(hist[2].post, ExportPack(hist[2]))) = 1

\* C18: for every append that adds an entry, the returned deltaBytes is the
\* number of bytes by which the log member grew, which is the encoded byte
\* length of the serialized line plus one for the line terminator, also when
\* the content has characters that encode to more than one byte.
C18_DeltaIsLogGrowth ==
    (Returned("append") /\ LastCall.result.value > 0) =>
        LET before == LogOf(LastCall.pre, LastCall.result.pack)
            after == LogOf(LastCall.post, LastCall.result.pack)
            added == SubSeq(after, Len(before) + 1, Len(after))
            line == LinesOf(UniversalNewlines(Utf8DecodeIgnore(added)))
        IN  /\ LastCall.result.value = Len(after) - Len(before)
            /\ Len(line) = 1
            /\ LastCall.result.value = Utf8Len(line[1]) + 1

\* C19: the log is append-only.  In a run of appends and exports, one after
\* the other, the log of every pack before a call is a byte prefix of its
\* log after the call, so no entry once written is changed, moved or
\* removed; an export leaves every log as it was, and each call starts from
\* the files the call before it left.
C19_LogAppendOnly ==
    /\ (Len(hist) > 0 /\ LastCall.op \in {"append", "export"}) =>
          /\ \A path \in DOMAIN LastCall.pre :
                /\ path \in DOMAIN LastCall.post
                /\ IsPrefix(LogOf(LastCall.pre, path), LogOf(LastCall.post, path))
          /\ LastCall.op = "export" =>
                \A path \in DOMAIN LastCall.post :
                    LogOf(LastCall.post, path) = LogOf(LastCall.pre, path)
    /\ Len(hist) = 2 => hist[2].pre = hist[1].post

\* The second of two appends that each added an entry has returned: the log
\* held an entry before it and holds two after it.
C19_Witness ==
    /\ Returned("append")
    /\ EntryCount(LogOf(LastCall.pre, LastCall.result.pack)) = 1
    /\ EntryCount(LogOf(LastCall.post, LastCall.result.pack)) = 2

\* The names of the pack files there can be by now: one for the alias of
\* each directory and each day up to today.
PackNames ==
    {PackFileName(AliasOfName(PathName(d)), day) : d \in DOMAIN dirs, day \in 1..today}

\* C20: after every completed build and every completed append, in any
\* sequence of them, the archive at the pack path has exactly the four
\* members meta, index, blob and log, each once, and so has every other
\* pack file; the pack files are named by alias and date, so that there is
\* at most one for an alias and a date.
C20_FourMembersOnePack ==
    (Returned("build") \/ Returned("append")) =>
        /\ FileAt(LastCall.post, LastCall.result.pack).exists
        /\ \A path \in DOMAIN LastCall.post :
              LET a == LastCall.post[path]
              IN  /\ path \in PackNames
                  /\ a.complete
                  /\ Len(a.members) = 4
                  /\ \A n \in {META, INDEX, BLOB, CHAT} :
                        Cardinality({i \in 1..4 : a.members[i].name = n}) = 1

\* An append has added an entry to the pack of the day, and the pack of the
\* day before is there as well.
C20_Witness ==
    /\ Returned("append")
    /\ LastCall.result.value > 0
    /\ Cardinality(DOMAIN LastCall.post) = 2

\* The approx_bytes field of a meta member: the digits between the key and
\* the closing brace.
ApproxBytes(meta) ==
    LET text == Utf8DecodeIgnore(meta)
        key == Chars("\"approx_bytes\":")
    IN  ParseInt(SubSeq(text, RFind(text, key) + Len(key) + 1, Len(text) - 1))

LengthPlusOne(recs, i) == recs[i].length + 1

\* C21: in every built pack the first index record has offset 0, each next
\* record's offset is the offset of the one before it plus its length plus
\* 1, the blob byte at offset + length of every record is the sentinel 0x00,
\* the slices of different records do not overlap, and the length of the
\* blob, which meta records as approx_bytes, is the sum of length + 1 over
\* the records.
C21_IndexAddressing ==
    Returned("build") =>
        LET a == FileAt(LastCall.post, LastCall.result.pack)
            recs == IndexRecords(MemberData(a, INDEX))
            blob == MemberData(a, BLOB)
        IN  /\ Len(recs) > 0 => recs[1].offset = 0
            /\ \A i \in 2..Len(recs) :
                  recs[i].offset = recs[i - 1].offset + recs[i - 1].length + 1
            /\ \A i \in 1..Len(recs) :
                  /\ recs[i].offset + recs[i].length + 1 <= Len(blob)
                  /\ blob[recs[i].offset + recs[i].length + 1] = "x00"
            /\ \A i, j \in 1..Len(recs) :
                  i < j => recs[i].offset + recs[i].length <= recs[j].offset
            /\ Len(blob) = SumMap(LengthPlusOne, recs, 1, Len(recs))
            /\ ApproxBytes(MemberData(a, META)) = Len(blob)

\* A build has returned whose index has three records or more, one of them
\* for a file whose text has a character of two bytes.
C21_Witness ==
    /\ Returned("build")
    /\ LET a == FileAt(LastCall.post, LastCall.result.pack)
           recs == IndexRecords(MemberData(a, INDEX))
       IN  /\ Len(recs) >= 3
           /\ \E i \in 1..Len(recs) :
                 Len(Utf8DecodeIgnore(SliceOf(MemberData(a, BLOB), recs[i]))) < recs[i].length

\* The text of the export output file.
OutputText == UniversalNewlines(Utf8DecodeIgnore(outfile.bytes))

\* An output line is a hit of the log, or one of the index.
IsChatLine(ln) == IsPrefix(Chars("{\"type\":\"chat\","), ln)
IsRepoLine(ln) == IsPrefix(Chars("{\"type\":\"repo\","), ln)

\* C22: the output of an export is a prefix of one fixed sequence of hits,
\* the matching lines of the log in log order and then the matching records
\* of the index in index order, and it is the longest prefix whose
\* serialized size is at most maxBytes: the export stops at the first hit
\* that does not fit, no later hit follows a skipped one, and the output
\* holds the hits' lines and nothing else, no truncation marker.
C22_OutputIsLongestPrefix ==
    Returned("export") =>
        LET hits == Hits(FileAt(LastCall.post, LastCall.result.pack), LastCall.args.query)
            needs == Needs(hits)
            out == LinesOf(OutputText)
            n == Len(out)
        IN  /\ n >= 1 /\ n <= Len(hits)
            /\ out = SubSeq(hits, 1, n)
            /\ OutputText = Concat([i \in 1..n |-> hits[i] \o <<"\n">>])
            /\ Total(needs, n) <= LastCall.args.max_bytes
            /\ n < Len(hits) => Total(needs, n + 1) > LastCall.args.max_bytes
            /\ \A i \in 1..n : IsChatLine(out[i]) \/ IsRepoLine(out[i])
            /\ \A i, j \in 1..n : (i < j /\ IsRepoLine(out[i])) => IsRepoLine(out[j])

\* An export has written the first hit and stopped at the second, which does
\* not fit, although the third one would have fitted after the first.
C22_Witness ==
    /\ Returned("export")
    /\ LET hits == Hits(FileAt(LastCall.post, LastCall.result.pack), LastCall.args.query)
           needs == Needs(hits)
       IN  /\ Len(hits) = 3
           /\ Len(LinesOf(OutputText)) = 1
           /\ needs[1] + needs[3] <= LastCall.args.max_bytes

\* C23: dedup is a substring test on the text of the log.  An append with
\* dedup = true returns deltaBytes 0 and leaves the pack as it was whenever
\* the textual checksum of its content occurs anywhere in the log text, be it
\* inside the content field of an earlier entry of a different content; it
\* adds its entry at the end of the log whenever that text occurs nowhere in
\* the log.
C23_DedupIsSubstringTest ==
    (Returned("append") /\ LastCall.args.dedup) =>
        LET before == LogOf(LastCall.pre, LastCall.result.pack)
            after == LogOf(LastCall.post, LastCall.result.pack)
        IN  IF Contains(Utf8DecodeIgnore(before), Checksum(LastCall.args.content))
            THEN /\ LastCall.result.value = 0
                 /\ LastCall.post = LastCall.pre
            ELSE /\ LastCall.result.value > 0
                 /\ IsPrefix(before, after)
                 /\ EntryCount(after) = EntryCount(before) + 1
                 /\ HoldsEntry(SubSeq(after, Len(before) + 1, Len(after)),
                               LastCall.args.content)

\* An append with dedup = true has returned deltaBytes 0 on a log that holds
\* no entry of its content: the checksum stands in the content of an entry
\* of another content.
C23_Witness ==
    /\ Returned("append")
    /\ LastCall.args.dedup
    /\ LastCall.result.value = 0
    /\ EntryCount(LogOf(LastCall.post, LastCall.result.pack)) = 1
    /\ ~HoldsEntry(LogOf(LastCall.post, LastCall.result.pack), LastCall.args.content)
    /\ HoldsEntry(LogOf(LastCall.post, LastCall.result.pack), QuotingContent)

\* A file of the built directory that the walk has to take: a regular file
\* whose base name matches an include pattern and that has no ancestor of an
\* excluded name.
Eligible(call, e) ==
    /\ e.kind = "file"
    /\ MatchesInclude(e, call.args.include)
    /\ ~HasExcludedAncestor(e, call.args.exclude)

\* C24: best-effort scanning.  A build of a directory in which reading a
\* file fails succeeds all the same; that file has no index record and no
\* bytes in the blob, and every other eligible file has its one record, whose
\* slice is the file's text and whose length is that of the slice; the
\* offsets run on from record to record as if the file were not there.
C24_UnreadableFileSkipped ==
    (/\ Len(hist) > 0 /\ LastCall.op = "build"
     /\ \E e \in dirs[LastCall.args.repo] : Eligible(LastCall, e) /\ ~e.readable) =>
        LET a == FileAt(LastCall.post, LastCall.result.pack)
            recs == IndexRecords(MemberData(a, INDEX))
            blob == MemberData(a, BLOB)
        IN  /\ LastCall.result.status = "ok"
            /\ Len(recs) > 0 => recs[1].offset = 0
            /\ \A i \in 2..Len(recs) :
                  recs[i].offset = recs[i - 1].offset + recs[i - 1].length + 1
            /\ Len(blob) = SumMap(LengthPlusOne, recs, 1, Len(recs))
            /\ \A e \in dirs[LastCall.args.repo] :
                  IF Eligible(LastCall, e) /\ e.readable
                  THEN /\ Cardinality(RecordsFor(LastCall, e)) = 1
                       /\ \A i \in RecordsFor(LastCall, e) :
                             /\ recs[i].length = Utf8Len(ReadText(e.bytes))
                             /\ SliceOf(blob, recs[i]) = Utf8Encode(ReadText(e.bytes))
                  ELSE RecordsFor(LastCall, e) = {}

\* A build of a directory with an eligible file that cannot be read has
\* returned, and its index holds the records of three other files.
C24_Witness ==
    /\ Returned("build")
    /\ \E e \in dirs[LastCall.args.repo] : Eligible(LastCall, e) /\ ~e.readable
    /\ Len(IndexRecords(MemberData(FileAt(LastCall.post, LastCall.result.pack), INDEX))) = 3

\* C25: the index of a built pack has records for eligible files alone.
\* Every record is that of a regular file of the directory whose base name
\* matches one of the include patterns; a directory has no record, and no
\* file has more than one.
C25_OnlyEligibleIndexed ==
    Returned("build") =>
        LET recs == IndexRecords(MemberData(FileAt(LastCall.post, LastCall.result.pack), INDEX))
            PathOf(e) == StrPath(os_name, LastCall.args.repo \o e.rel)
            eligible == {e \in dirs[LastCall.args.repo] :
                            e.kind = "file" /\ MatchesInclude(e, LastCall.args.include)}
            paths == {PathOf(e) : e \in eligible}
        IN  /\ \A i \in 1..Len(recs) : recs[i].path \in paths
            /\ \A i, j \in 1..Len(recs) : recs[i].path = recs[j].path => i = j
            /\ \A e \in dirs[LastCall.args.repo] \ eligible :
                  \A i \in 1..Len(recs) : recs[i].path # PathOf(e)

\* A build has returned with records in its index, of a directory that holds
\* a directory whose name matches an include pattern and a file whose name
\* matches none.
C25_Witness ==
    /\ Returned("build")
    /\ MemberData(FileAt(LastCall.post, LastCall.result.pack), INDEX) # <<>>
    /\ \E e \in dirs[LastCall.args.repo] :
          e.kind = "dir" /\ MatchesInclude(e, LastCall.args.include)
    /\ \E e \in dirs[LastCall.args.repo] :
          e.kind = "file" /\ ~MatchesInclude(e, LastCall.args.include)

\* The letter a character is a form of: its small form, and the small sigma
\* for the three sigmas.
LetterOf(c) == IF c \in {"U+3A3", "U+3C3", "U+3C2"} THEN "U+3C3" ELSE LowerChar(c)

\* Two texts differ in letter case alone.
SameButCase(s, t) ==
    Len(s) = Len(t) /\ \A i \in 1..Len(s) : LetterOf(s[i]) = LetterOf(t[i])

\* The queries of the case specification, as sets of queries.
LatinQueries == { Chars("PRINT"), Chars("print") }
SigmaQueries == { <<"a", "U+3A3">>, <<"a", "U+3C3">> }

\* C26: export matches without regard to letter case on both sides.  On
\* every pack, two queries that differ in letter case alone have the same
\* sequence of hits, and a line of the log or a slice of the blob is a hit
\* exactly when its text in lower case contains the query in lower case.
C26_CaseInsensitiveMatch ==
    (/\ Len(hist) > 0
     /\ LastCall.op = "export"
     /\ LastCall.result.status \in {"ok", "empty-export-result"}) =>
        LET a == FileAt(LastCall.post, ExportPack(LastCall))
            hits == Hits(a, LastCall.args.query)
            lines == MemberLines(a, CHAT)
            recs == IndexRecords(MemberData(a, INDEX))
        IN  /\ \A q \in LatinQueries \cup SigmaQueries :
                  SameButCase(q, LastCall.args.query) => Hits(a, q) = hits
            /\ \A i \in 1..Len(lines) :
                  (\E k \in 1..Len(hits) : hits[k] = ChatHit(lines[i]))
                    <=> Contains(Lower(lines[i]), Lower(LastCall.args.query))
            /\ \A i \in 1..Len(recs) :
                  LET t == Utf8DecodeIgnore(SliceOf(MemberData(a, BLOB), recs[i]))
                  IN  (\E k \in 1..Len(hits) :
                          hits[k] = RepoHit(recs[i].path, recs[i].offset, recs[i].length, t))
                        <=> Contains(Lower(t), Lower(LastCall.args.query))

\* The call found at its pack path a pack without a log member.
FoundNoLog(call) ==
    /\ FileAt(call.pre, ExportPack(call)).exists
    /\ ~HasMember(FileAt(call.pre, ExportPack(call)), CHAT)

\* C27: a pack whose log member is missing is read as a pack with an empty
\* log, by append and by export.  An append on it succeeds and leaves the
\* members it found as they were, with a log member after them that holds
\* the new entry and nothing else; an export on it searches the indexed
\* content: it returns the hits of the index, or empty-export-result if
\* there are none.
C27_MissingLogIsEmptyLog ==
    /\ (Len(hist) > 0 /\ LastCall.op = "append" /\ FoundNoLog(LastCall)) =>
          LET before == FileAt(LastCall.pre, ExportPack(LastCall))
              after == FileAt(LastCall.post, ExportPack(LastCall))
          IN  /\ LastCall.result.status = "ok"
              /\ LastCall.result.value > 0
              /\ after.complete
              /\ Len(after.members) = Len(before.members) + 1
              /\ SubSeq(after.members, 1, Len(before.members)) = before.members
              /\ after.members[Len(after.members)].name = CHAT
              /\ EntryCount(LogOf(LastCall.post, ExportPack(LastCall))) = 1
              /\ LogEntries(LogOf(LastCall.post, ExportPack(LastCall)))
                   = << LogLine(LastCall.day0, LastCall.args.role, LastCall.args.content) >>
    /\ (Len(hist) > 0 /\ LastCall.op = "export" /\ FoundNoLog(LastCall)) =>
          LET a == FileAt(LastCall.pre, ExportPack(LastCall))
              recs == IndexRecords(MemberData(a, INDEX))
              matching == {i \in 1..Len(recs) :
                             Matches(Utf8DecodeIgnore(SliceOf(MemberData(a, BLOB), recs[i])),
                                     LastCall.args.query)}
          IN  IF matching = {}
              THEN LastCall.result.status = "empty-export-result"
              ELSE LastCall.result.status = "ok" /\ LastCall.result.value > 0

\* The buffer an export of process p has accumulated from the pack at its
\* path: the lines of the hits that fit.
Accumulated(p) ==
    LET hits == Hits(FileAt(packs, proc[p].pack), proc[p].args.query)
    IN  Concat([i \in 1..Taken(Needs(hits), proc[p].args.max_bytes) |-> hits[i] \o <<"\n">>])

\* C28: the export output file changes by the rename of a completely written
\* result and by nothing else.  Every step that changes the file is the
\* rename that ends a successful export, and the file then holds exactly the
\* buffer that export accumulated; an export that fails, on its arguments or
\* with an empty result, leaves the file as it was, a result of an earlier
\* export included.
C28_OutputOnlyByRename ==
    [][outfile' # outfile =>
          \E p \in DOMAIN proc :
              /\ proc[p].op = "export"
              /\ proc[p].pc = "e_rename"
              /\ proc'[p].pc = "idle"
              /\ hist'[Len(hist')].op = "export"
              /\ hist'[Len(hist')].result.status = "ok"
              /\ outfile'.exists
              /\ outfile'.bytes = Utf8Encode(Accumulated(p))]_vars

\* The last two calls to return were a build and then an append that added
\* an entry, on one pack path, and the append had found a pack at the path
\* whose index the build has changed.
RebuildThenAppend ==
    /\ Len(hist) = 2
    /\ hist[1].op = "build" /\ hist[1].result.status = "ok"
    /\ hist[2].op = "append" /\ hist[2].result.status = "ok" /\ hist[2].result.value > 0
    /\ hist[1].result.pack = hist[2].result.pack
    /\ FileAt(hist[2].pre, hist[2].result.pack).complete
    /\ MemberData(FileAt(hist[2].pre, hist[2].result.pack), INDEX)
         # MemberData(FileAt(hist[1].post, hist[1].result.pack), INDEX)

\* The archive has the meta, index and blob members of the other.
SameContentMembers(a, b) ==
    \A n \in {META, INDEX, BLOB} :
        HasMember(a, n) /\ HasMember(b, n) /\ MemberData(a, n) = MemberData(b, n)

\* C29: an append that races a rebuild can bring the discarded log back.
\* The append extracts the log when it opens the pack and adds its line to
\* that copy; its member replace then copies meta, index and blob from the
\* archive that is at the pack path when the replace begins, a rebuilt one
\* included, and writes the copy of the log as the log member, whatever log
\* that archive has.
C29_ReplaceWritesExtractedLog ==
    [][\A p \in DOMAIN proc :
          /\ (proc[p].pc = "a_open" /\ proc'[p].pc = "z_open") =>
                /\ IsPrefix(LogOf(packs, proc[p].pack), proc'[p].tmp_chat)
                /\ Len(proc'[p].tmp_chat) > Len(LogOf(packs, proc[p].pack))
          /\ (proc[p].pc = "z_open" /\ proc'[p].pc = "z_rename") =>
                /\ SameContentMembers(proc'[p].arc, FileAt(packs, proc[p].pack))
                /\ HasMember(proc'[p].arc, CHAT)
                /\ MemberData(proc'[p].arc, CHAT) = proc[p].tmp_chat]_vars

\* A rebuild and an append have returned, and the pack has the meta, index
\* and blob the rebuild wrote and a log that holds the entry from before the
\* rebuild and after it the new one.
C29_Witness ==
    /\ RebuildThenAppend
    /\ SameContentMembers(FileAt(packs, hist[2].result.pack),
                          FileAt(hist[1].post, hist[1].result.pack))
    /\ LogOf(hist[1].post, hist[1].result.pack) = <<>>
    /\ EntryCount(LogOf(hist[2].pre, hist[2].result.pack)) = 1
    /\ IsPrefix(LogOf(hist[2].pre, hist[2].result.pack), LogOf(packs, hist[2].result.pack))
    /\ EntryCount(LogOf(packs, hist[2].result.pack)) = 2
    /\ HoldsEntry(LogOf(packs, hist[2].result.pack), hist[2].args.content)

\* C30: an append that races a rebuild can undo the rebuild.  The rename
\* that ends an append puts at the pack path the archive its member replace
\* wrote from the archive it had read, whatever is at the path by then: a
\* pack that a rebuild has renamed into place since the read is overwritten
\* with the meta, index and blob from before the rebuild.
C30_RenameOverwritesRebuild ==
    [][\A p \in DOMAIN proc :
          (proc[p].pc = "z_rename" /\ proc'[p].pc = "idle") =>
              /\ FileAt(packs', proc[p].pack) = proc[p].arc
              /\ hist'[Len(hist')].proc = p
              /\ hist'[Len(hist')].result.status = "ok"]_vars

\* A rebuild has returned success and an append after it, and the pack has
\* the meta, index and blob from before the rebuild, not those the rebuild
\* wrote.
C30_Witness ==
    /\ RebuildThenAppend
    /\ SameContentMembers(FileAt(packs, hist[2].result.pack),
                          FileAt(hist[2].pre, hist[2].result.pack))
    /\ ~SameContentMembers(FileAt(packs, hist[2].result.pack),
                           FileAt(hist[1].post, hist[1].result.pack))
    /\ EntryCount(LogOf(packs, hist[2].result.pack)) = 2

\* The index and the blob of an archive fit each other: every record lies
\* inside the blob with a byte after it, the digest of every record is that
\* of its slice, and the records and their sentinels make up the whole blob.
Coherent(a) ==
    (HasMember(a, INDEX) /\ HasMember(a, BLOB)) =>
        LET recs == IndexRecords(MemberData(a, INDEX))
            blob == MemberData(a, BLOB)
        IN  /\ \A i \in 1..Len(recs) : recs[i].offset + recs[i].length < Len(blob)
            /\ Len(blob) = SumMap(LengthPlusOne, recs, 1, Len(recs))
            /\ \A i \in 1..Len(recs) : Sha1Hex(SliceOf(blob, recs[i])) = recs[i].digest

\* C31: index and blob stay coherent in every reachable state.  While
\* the builds of one process and the appends and exports of another
\* interleave on one pack, the
\* index and the blob of the file at the pack path, and of every archive an
\* append has staged for its rename, are those of one build: every index
\* record has offset + length < the length of the blob, so that no export
\* slices outside the blob.
C31_IndexBlobCoherent ==
    /\ \A path \in DOMAIN packs : packs[path].exists => Coherent(packs[path])
    /\ \A p \in DOMAIN proc : proc[p].pc = "z_rename" => Coherent(proc[p].arc)

\* A build with patterns of its own has returned, an append that had read
\* the pack before it has returned after it, and the pack at the path has an
\* index with a record and the blob of that record, not those of the build.
C31_Witness ==
    /\ RebuildThenAppend
    /\ hist[1].args.include = RebuildInclude
    /\ Len(IndexRecords(MemberData(FileAt(packs, hist[2].result.pack), INDEX))) > 0
    /\ MemberData(FileAt(hist[1].post, hist[1].result.pack), BLOB) = <<>>
    /\ MemberData(FileAt(packs, hist[2].result.pack), BLOB) # <<>>

\* The last two calls to return were a successful build and then an append,
\* both called with the pack in place, on one pack path, and the log of the
\* pack held an entry of the append's content before the build.
AppendBuildAppend ==
    /\ Len(hist) = 2
    /\ hist[1].op = "build" /\ hist[1].result.status = "ok"
    /\ hist[2].op = "append" /\ hist[2].args.dedup
    /\ hist[2].args.repo = hist[1].args.repo
    /\ PackFileName(AliasOfName(PathName(hist[2].args.repo)), hist[2].day0) = hist[1].result.pack
    /\ HoldsEntry(LogOf(hist[1].pre, hist[1].result.pack), hist[2].args.content)

\* C32: dedup memory does not survive a rebuild.  After an append of a
\* content with dedup = true, then a build, then an append of the same
\* content with dedup = true, all on one alias and date, the second append
\* has returned a non-zero deltaBytes and the log holds exactly one entry,
\* which is of that content.
C32_RebuildForgetsDedup ==
    AppendBuildAppend =>
        /\ hist[2].result.status = "ok"
        /\ hist[2].result.value > 0
        /\ hist[2].result.pack = hist[1].result.pack
        /\ EntryCount(LogOf(hist[2].post, hist[2].result.pack)) = 1
        /\ \E day \in hist[2].day0..hist[2].day1 :
              LogEntries(LogOf(hist[2].post, hist[2].result.pack))
                = << LogLine(day, hist[2].args.role, hist[2].args.content) >>

\* An append has added its entry after a build, to a pack whose log held an
\* entry of the same content before that build.
C32_Witness ==
    /\ AppendBuildAppend
    /\ hist[2].result.status = "ok"
    /\ hist[2].result.value > 0
    /\ ~hist[2].built
    /\ EntryCount(LogOf(hist[1].pre, hist[1].result.pack)) = 1

\* The roles under which a log holds an entry of the content.
RolesOf(log, content) ==
    LET text == Utf8DecodeIgnore(log)
    IN  {role \in Roles :
            Contains(text, Chars(",\"role\":") \o JsonStr(role) \o Chars(",\"content\":")
                           \o JsonStr(content) \o Chars(",\"cksum\":"))}

\* C33: dedup ignores the role.  An append with dedup = true of a content
\* that the log of its pack holds under a different role returns deltaBytes
\* 0 and leaves the pack as it was; with every append made with dedup =
\* true, no log holds one content under two roles.
C33_DedupIgnoresRole ==
    /\ (/\ Returned("append")
        /\ LastCall.args.dedup
        /\ RolesOf(LogOf(LastCall.pre, LastCall.result.pack), LastCall.args.content)
             \ {LastCall.args.role} # {}) =>
          /\ LastCall.result.value = 0
          /\ LastCall.post = LastCall.pre
    /\ \A path \in DOMAIN packs, c \in {Chars("hi"), Chars("yo")} :
          Cardinality(RolesOf(LogOf(packs, path), c)) <= 1

\* An append under one role has returned deltaBytes 0 on a pack whose log
\* holds the content once, under the other role.
C33_Witness ==
    /\ Returned("append")
    /\ LastCall.args.dedup
    /\ LastCall.result.value = 0
    /\ EntryCount(LogOf(LastCall.post, LastCall.result.pack)) = 1
    /\ LastCall.args.role
         \notin RolesOf(LogOf(LastCall.post, LastCall.result.pack), LastCall.args.content)
    /\ RolesOf(LogOf(LastCall.post, LastCall.result.pack), LastCall.args.content) # {}

\* The last two calls to return were a successful call on one day and then
\* an append or export for the same directory that began and ended on a
\* later day.
NextDayCall ==
    /\ Len(hist) = 2
    /\ hist[1].op \in {"append", "export"}
    /\ hist[1].result.status = "ok"
    /\ hist[2].op \in {"append", "export"}
    /\ hist[2].args.repo = hist[1].args.repo
    /\ hist[1].day1 < hist[2].day0
    /\ hist[2].day0 = hist[2].day1

\* C34: the pack key includes the current date.  Once the date has changed,
\* an append or export for the same alias does not see the pack of the day
\* before: it builds a new pack, whose log starts empty, and leaves every
\* file it found as it was.  The append adds its entry, whatever the log of
\* the day before holds, and that entry is the whole log of the new pack;
\* the export has no hit from a log.
C34_PackPerDate ==
    NextDayCall =>
        LET call == hist[2]
            new == ExportPack(call)
        IN  /\ call.built
            /\ new # hist[1].result.pack
            /\ new \notin DOMAIN call.pre
            /\ FileAt(call.post, new).exists
            /\ \A path \in DOMAIN call.pre : FileAt(call.post, path) = call.pre[path]
            /\ IF call.op = "append"
               THEN /\ call.result.status = "ok"
                    /\ call.result.value > 0
                    /\ call.result.pack = new
                    /\ EntryCount(LogOf(call.post, new)) = 1
                    /\ HoldsEntry(LogOf(call.post, new), call.args.content)
               ELSE LET hits == Hits(FileAt(call.post, new), call.args.query)
                    IN  /\ LogOf(call.post, new) = <<>>
                        /\ \A k \in 1..Len(hits) : IsRepoLine(hits[k])
                        /\ call.result.status
                             = IF Len(hits) = 0 THEN "empty-export-result" ELSE "ok"

\* On the day after an append of a content, an append of the same content
\* with dedup = true has built a new pack and added its entry to it; the
\* pack of the day before still holds its entry.
C34_Witness ==
    /\ NextDayCall
    /\ hist[1].op = "append"
    /\ hist[2].op = "append" /\ hist[2].args.dedup
    /\ hist[2].args.content = hist[1].args.content
    /\ hist[2].result.status = "ok" /\ hist[2].result.value > 0
    /\ hist[2].result.pack # hist[1].result.pack
    /\ HoldsEntry(LogOf(packs, hist[1].result.pack), hist[2].args.content)
    /\ HoldsEntry(LogOf(packs, hist[2].result.pack), hist[2].args.content)

\* The last two calls to return were successful builds or appends for two
\* different directories.
TwoDirectories ==
    /\ Len(hist) = 2
    /\ \A i \in 1..2 : hist[i].op \in {"build", "append"} /\ hist[i].result.status = "ok"
    /\ hist[1].args.repo # hist[2].args.repo

\* C35: packs of different directories do not collide.  Two operations
\* given two different directory paths, neither a registered alias, address
\* two different pack files, directories of one base name included: the
\* later one, append or build, leaves the pack of the earlier one as it was.
C35_PacksDoNotCollide ==
    TwoDirectories =>
        /\ hist[1].result.pack # hist[2].result.pack
        /\ FileAt(hist[2].post, hist[1].result.pack) = FileAt(hist[1].post, hist[1].result.pack)

\* C36: a log line is matched on its whole serialized form.  The output of
\* an export holds the hit of a log entry exactly when the query in lower
\* case is a substring of the serialized entry in lower case, be it in the
\* role, a field name, the timestamp or the checksum and not in the content;
\* an export that returns an empty result had no such entry.
C36_WholeLineMatched ==
    (/\ Len(hist) > 0
     /\ LastCall.op = "export"
     /\ LastCall.result.status \in {"ok", "empty-export-result"}) =>
        LET entries == LogEntries(LogOf(LastCall.post, ExportPack(LastCall)))
            matching == {i \in 1..Len(entries) :
                            Contains(Lower(entries[i]), Lower(LastCall.args.query))}
        IN  IF LastCall.result.status = "ok"
            THEN \A i \in 1..Len(entries) :
                    (\E k \in 1..Len(OutputLines) : OutputLines[k] = ChatHit(entries[i]))
                      <=> i \in matching
            ELSE matching = {}

\* The temporary files that process p has created and that still exist.
TempsOf(p) == {t \in temps : t[2] = p}

\* C37: every operation removes the temporary files it created.  Whenever
\* a process is in no call, its last call having returned or failed at
\* whatever step, no staged blob, staged log, staged archive or staged
\* output file that it created exists.
C37_NoTempFileRemains ==
    \A p \in DOMAIN proc : proc[p].pc = "idle" => TempsOf(p) = {}

====
